---- MODULE Spec2Model ----
(***************************************************************************)
(* Model of the replay/backtesting core of the copilot backend:            *)
(*   backend/app/services/predict_service.py   (predict)                   *)
(*   backend/app/services/rule_service.py      (evaluate_post_hypo_rebound)*)
(*   backend/app/services/replay_service.py    (build_replay_report)       *)
(* and of the service around it:                                           *)
(*   backend/app/main.py        (the HTTP handlers and the scheduled jobs) *)
(*   backend/app/repository.py  (CopilotRepository, the tables of orm.py)  *)
(*                                                                         *)
(* Numbers.  Timestamps are integers counted in ticks of one minute        *)
(* (MsPerTick milliseconds), so every millisecond constant of the source   *)
(* appears divided by 60000.  Python floats are modelled by exact          *)
(* rationals <<num, den>> in lowest terms with den > 0; IEEE rounding is   *)
(* not modelled.  math.sqrt is not computed: a row carries rmseSq, the     *)
(* radicand handed to math.sqrt.                                           *)
(***************************************************************************)
EXTENDS Integers, Sequences, FiniteSets, TLC

VARIABLES
    glucose,         \* per invocation: the caller's glucose list
    therapy_events,  \* per invocation: the caller's therapy-event list
    since,           \* per invocation: lower bound of the range
    until,           \* per invocation: upper bound of the range
    step_minutes,    \* per invocation: requested step
    pc,              \* per invocation: position in build_replay_report
    sorted_glucose,  \* per invocation: local of build_replay_report
    sorted_therapy,  \* per invocation: local of build_replay_report
    i,               \* per invocation: loop index of the simulation
    window_glucose,  \* per invocation: the window handed to predict and the rule
    window_therapy,  \* per invocation: the rolling therapy window
    horizon_errors,  \* per accumulator: horizon -> list of error samples
    rule_counter,    \* per accumulator: state -> count
    sim_calls,       \* per invocation: calls made to predict / the rule evaluator
    report,          \* per invocation: the returned ReplayReportResponse
    fn_name,         \* direct call: the function called
    fn_glucose,      \* direct call: the caller's argument (a list, or a dict of samples)
    fn_pc,           \* direct call: "ready" or "returned"
    fn_result,       \* direct call: the argument passed and the value returned
    db,              \* the database: one field per table of orm.py
    clock,           \* time.time() * 1000, in ticks
    handler,         \* per thread: the handler or job it runs, its locals, its position
    response         \* per thread: the last HTTP response sent

vars == <<glucose, therapy_events, since, until, step_minutes, pc,
          sorted_glucose, sorted_therapy, i, window_glucose, window_therapy,
          horizon_errors, rule_counter, sim_calls, report,
          fn_name, fn_glucose, fn_pc, fn_result,
          db, clock, handler, response>>

apiVars == <<db, clock, handler, response>>

replayVars == <<glucose, therapy_events, since, until, step_minutes, pc,
                sorted_glucose, sorted_therapy, i, window_glucose, window_therapy,
                horizon_errors, rule_counter, sim_calls, report>>

fnVars == <<fn_name, fn_glucose, fn_pc, fn_result>>

(***************************************************************************)
(* Units and integer helpers                                               *)
(***************************************************************************)
MsPerTick == 60000

Max(a, b) == IF a >= b THEN a ELSE b

Abs(a) == IF a < 0 THEN -a ELSE a

RECURSIVE GCD(_, _)
GCD(a, b) == IF b = 0 THEN a ELSE GCD(b, a % b)

LCM(a, b) == (a \div GCD(a, b)) * b

(***************************************************************************)
(* Float arithmetic, as exact rationals                                    *)
(***************************************************************************)
Norm(n, d) ==
    LET sn == IF d < 0 THEN -n ELSE n
        sd == Abs(d)
        g  == GCD(Abs(sn), sd)
    IN  <<sn \div g, sd \div g>>

Rat(n) == <<n, 1>>

Tenths(t) == Norm(t, 10)

Hundredths(h) == Norm(h, 100)

RAdd(a, b) ==
    LET l == LCM(a[2], b[2])
    IN  Norm(a[1] * (l \div a[2]) + b[1] * (l \div b[2]), l)

RNeg(a) == <<-a[1], a[2]>>

RSub(a, b) == RAdd(a, RNeg(b))

RMul(a, b) ==
    LET g1 == GCD(Abs(a[1]), b[2])
        g2 == GCD(Abs(b[1]), a[2])
    IN  Norm((a[1] \div Max(1, g1)) * (b[1] \div Max(1, g2)),
             (a[2] \div Max(1, g2)) * (b[2] \div Max(1, g1)))

RDiv(a, b) == RMul(a, IF b[1] < 0 THEN <<-b[2], -b[1]>> ELSE <<b[2], b[1]>>)

RAbs(a) == <<Abs(a[1]), a[2]>>

RLeq(a, b) ==
    LET l == LCM(a[2], b[2])
    IN  a[1] * (l \div a[2]) <= b[1] * (l \div b[2])

RLess(a, b) == ~RLeq(b, a)

RMax(a, b) == IF RLeq(b, a) THEN a ELSE b

\* sum(...) of a list of floats, added up by halves
RECURSIVE RSum(_)
RSum(s) ==
    IF s = <<>> THEN Rat(0)
    ELSE IF Len(s) = 1 THEN s[1]
    ELSE LET h == Len(s) \div 2
         IN  RAdd(RSum(SubSeq(s, 1, h)), RSum(SubSeq(s, h + 1, Len(s))))

(***************************************************************************)
(* models.GlucosePoint, and Python list helpers                            *)
(***************************************************************************)
\* quality is left at its default "OK"
GlucosePoint(ts, valueMmol, source) ==
    [ts |-> ts, valueMmol |-> valueMmol, source |-> source, quality |-> "OK"]

\* sorted(s, key=lambda p: p.ts): a stable sort. The element at position j
\* lands after every element with a smaller ts and every earlier element with
\* an equal ts; a list already in ts order is returned as it is.
SortedByTsNotSorted(s) == s

SortedByTs(s) ==
    IF \A k \in 1..(Len(s) - 1) : s[k].ts <= s[k + 1].ts THEN s
    ELSE LET Rank(j) == 1 + Cardinality({k \in 1..Len(s) :
                            \/ s[k].ts < s[j].ts
                            \/ s[k].ts = s[j].ts /\ k < j})
         IN  [p \in 1..Len(s) |-> s[CHOOSE j \in 1..Len(s) : Rank(j) = p]]

SelectInRangeOpen(s, lo, hi) ==
    LET Test(x) == lo <= x.ts /\ x.ts < hi
    IN  SelectSeq(s, Test)

\* [x for x in s if lo <= x.ts <= hi]
SelectInRange(s, lo, hi) ==
    LET Test(x) == lo <= x.ts /\ x.ts <= hi
    IN  SelectSeq(s, Test)

\* the Python slice s[a:b] with 0 <= a, 0-based and end-exclusive
Slice(s, a, b) == SubSeq(s, a + 1, IF b > Len(s) THEN Len(s) ELSE b)

\* the Python slice s[-k:]
LastK(s, k) == SubSeq(s, Max(1, Len(s) - k + 1), Len(s))

Values(s) == [k \in 1..Len(s) |-> s[k].valueMmol]

(***************************************************************************)
(* predict_service.py                                                      *)
(***************************************************************************)
_slope_per_5m(g) ==
    IF Len(g) < 2 THEN Rat(0)
    ELSE LET first == IF Len(g) >= 6 THEN g[Len(g) - 5] ELSE g[1]
             last  == g[Len(g)]
             dt    == Max(1, (last.ts - first.ts) * MsPerTick)
         IN  RMul(RDiv(RSub(last.valueMmol, first.valueMmol), Rat(dt)),
                  Rat(5 * 60 * 1000))

fmean(w) == RDiv(RSum(w), Rat(Len(w)))

ForecastOut(ts, horizon, valueMmol, ciLow, ciHigh, modelVersion) ==
    [ts |-> ts, horizon |-> horizon, valueMmol |-> valueMmol,
     ciLow |-> ciLow, ciHigh |-> ciHigh, modelVersion |-> modelVersion]

CiFloor == Hundredths(220)

predict(g) ==
    IF g = <<>> THEN <<>>
    ELSE LET sorted_points == SortedByTs(g)
             latest   == sorted_points[Len(sorted_points)]
             slope    == _slope_per_5m(sorted_points)
             value_5  == RAdd(latest.valueMmol, slope)
             window   == Values(LastK(sorted_points, 24))
             base     == IF window # <<>> THEN fmean(window) ELSE latest.valueMmol
             value_60 == RAdd(base, RMul(slope, Rat(12)))
         IN  << ForecastOut(latest.ts + 5, 5, value_5,
                            RMax(CiFloor, RSub(value_5, Hundredths(45))),
                            RAdd(value_5, Hundredths(45)), "cloud-hf-v1"),
                ForecastOut(latest.ts + 60, 60, value_60,
                            RMax(CiFloor, RSub(value_60, Hundredths(120))),
                            RAdd(value_60, Hundredths(120)), "cloud-ensemble-v1") >>

(***************************************************************************)
(* rule_service.py                                                         *)
(***************************************************************************)
\* Python's None, as a record so that it compares with the records it stands in for
None == [none |-> TRUE]

RuleId == "PostHypoReboundGuard.v1"

RuleDecisionOutVeto(state, reasons, actionProposal) ==
    [ruleId |-> RuleId, state |-> IF state = "TRIGGERED" THEN "BLOCKED" ELSE state,
     reasons |-> reasons, actionProposal |-> actionProposal]

RuleDecisionOut(state, reasons, actionProposal) ==
    [ruleId |-> RuleId, state |-> state, reasons |-> reasons,
     actionProposal |-> actionProposal]

ActionProposal(type, targetMmol, durationMinutes, reason) ==
    [type |-> type, targetMmol |-> targetMmol,
     durationMinutes |-> durationMinutes, reason |-> reason]

MinPointsLow == 4 - 1
MinPoints == 4

HypoThreshold == Tenths(30)

ReboundDelta == Tenths(2)

SelectHypoBelow(s) ==
    LET Test(x) == RLess(x.valueMmol, HypoThreshold)
    IN  SelectSeq(s, Test)

\* [p for p in sorted_points if p.valueMmol <= 3.0]
SelectHypo(s) ==
    LET Test(x) == RLeq(x.valueMmol, HypoThreshold)
    IN  SelectSeq(s, Test)

SelectAfterInclusive(s, t) ==
    LET Test(x) == x.ts >= t
    IN  SelectSeq(s, Test)

\* [p for p in sorted_points if p.ts > hypo.ts]
SelectAfter(s, t) ==
    LET Test(x) == x.ts > t
    IN  SelectSeq(s, Test)

RisingEither(after) ==
    \/ RLess(ReboundDelta, RSub(after[2].valueMmol, after[1].valueMmol))
    \/ RLess(ReboundDelta, RSub(after[3].valueMmol, after[2].valueMmol))

Rising(after) ==
    /\ RLess(ReboundDelta, RSub(after[2].valueMmol, after[1].valueMmol))
    /\ RLess(ReboundDelta, RSub(after[3].valueMmol, after[2].valueMmol))

evaluate_post_hypo_rebound(g) ==
    IF Len(g) < MinPoints THEN RuleDecisionOut("NO_MATCH", <<"insufficient_points">>, None)
    ELSE LET sorted_points == SortedByTs(g)
             hypo_points   == SelectHypo(sorted_points)
         IN  IF hypo_points = <<>>
             THEN RuleDecisionOut("NO_MATCH", <<"no_hypo">>, None)
             ELSE LET hypo  == hypo_points[Len(hypo_points)]
                      after == SelectAfter(sorted_points, hypo.ts)
                  IN  IF Len(after) < 3
                      THEN RuleDecisionOut("NO_MATCH", <<"insufficient_post_hypo_points">>, None)
                      ELSE IF ~Rising(after)
                      THEN RuleDecisionOut("NO_MATCH", <<"no_rebound">>, None)
                      ELSE RuleDecisionOut("TRIGGERED", <<"hypo_plus_rising_trend">>,
                               ActionProposal("temp_target", Tenths(44), 60,
                                              "post_hypo_rebound"))

(***************************************************************************)
(* Applying predict and evaluate_post_hypo_rebound to caller-supplied      *)
(* lists.  fn_glucose is the caller's list object; both functions sort     *)
(* with sorted(), which builds a new list and leaves its argument alone.   *)
(***************************************************************************)
MaxFnLen == 5

RuleValues == {Tenths(30), Tenths(33), Tenths(34), Tenths(37), Tenths(38), Tenths(41)}

PredictValues == {Tenths(20), Tenths(30), Tenths(60)}

\* timestamp layouts of a list of length n: ascending, descending, equal in pairs
TsLayouts(n) ==
    { [k \in 1..n |-> 5 * k],
      [k \in 1..n |-> 5 * (n + 1 - k)],
      [k \in 1..n |-> 5 * ((k + 1) \div 2)] }

\* a list of n readings with the timestamps t and the values v
Readings(n, t, v) == [k \in 1..n |-> GlucosePoint(t[k], v[k], "cgm")]

FnValues(name) == IF name = "predict" THEN PredictValues ELSE RuleValues

ArgAfterSortedInPlace(arg, sorted_copy) == sorted_copy

\* what the argument list holds after sorted(glucose, key=...) has run
ArgAfterSorted(arg, sorted_copy) == arg

Slots == {1, 2}

EmptyDict == [k \in {} |-> <<>>]

ZeroCounter == [TRIGGERED |-> 0, BLOCKED |-> 0, NO_MATCH |-> 0]

NoCalls == [predict |-> 0, rule |-> 0]

FreshLocals ==
    /\ sorted_glucose = [s \in Slots |-> <<>>]
    /\ sorted_therapy = [s \in Slots |-> <<>>]
    /\ i = [s \in Slots |-> 0]
    /\ window_glucose = [s \in Slots |-> <<>>]
    /\ window_therapy = [s \in Slots |-> <<>>]
    /\ horizon_errors = [s \in Slots |-> EmptyDict]
    /\ rule_counter = [s \in Slots |-> ZeroCounter]
    /\ sim_calls = [s \in Slots |-> NoCalls]
    /\ report = [s \in Slots |-> None]

Threads == {"request", "scheduler"}

\* the tables of orm.py, all empty
EmptyDb ==
    [glucose_points |-> {}, therapy_events |-> {}, model_registry |-> {},
     actions |-> {}, kv_store |-> [k \in {} |-> ""], analysis_reports |-> {}]

\* no request is being served and no job is running
ApiIdle ==
    /\ db = EmptyDb
    /\ clock = 0
    /\ handler = [t \in Threads |-> [pc |-> "idle"]]
    /\ response = [t \in Threads |-> None]

ReplayIdle ==
    /\ glucose = [s \in Slots |-> <<>>]
    /\ therapy_events = [s \in Slots |-> <<>>]
    /\ since = [s \in Slots |-> 0]
    /\ until = [s \in Slots |-> 0]
    /\ step_minutes = [s \in Slots |-> 5]
    /\ pc = [s \in Slots |-> "idle"]
    /\ FreshLocals

InitFn ==
    /\ ReplayIdle
    /\ fn_name \in {"predict", "evaluate_post_hypo_rebound"}
    /\ \E n \in 0..MaxFnLen :
          \E t \in TsLayouts(n), v \in [1..n -> FnValues(fn_name)] :
              fn_glucose = Readings(n, t, v)
    /\ fn_pc = "ready"
    /\ fn_result = None
    /\ ApiIdle

CallPredict ==
    /\ fn_pc = "ready"
    /\ fn_name = "predict"
    /\ fn_result' = [arg |-> fn_glucose, value |-> predict(fn_glucose)]
    /\ fn_glucose' = ArgAfterSorted(fn_glucose, SortedByTs(fn_glucose))
    /\ fn_pc' = "returned"
    /\ UNCHANGED <<fn_name, replayVars, apiVars>>

CallEvaluate ==
    /\ fn_pc = "ready"
    /\ fn_name = "evaluate_post_hypo_rebound"
    /\ fn_result' = [arg |-> fn_glucose, value |-> evaluate_post_hypo_rebound(fn_glucose)]
    /\ fn_glucose' = ArgAfterSorted(fn_glucose, SortedByTs(fn_glucose))
    /\ fn_pc' = "returned"
    /\ UNCHANGED <<fn_name, replayVars, apiVars>>

NextFn == CallPredict \/ CallEvaluate

SpecFn == InitFn /\ [][NextFn]_vars

(***************************************************************************)
(* replay_service.py: helpers                                              *)
(***************************************************************************)
\* payload is left at its default, the empty dict
TherapyEvent(id, ts, type) ==
    [id |-> id, ts |-> ts, type |-> type, payload |-> [k \in {} |-> ""]]

ReplayRuleStats(triggered, blocked, noMatch) ==
    [ruleId |-> RuleId, triggered |-> triggered, blocked |-> blocked,
     noMatch |-> noMatch]

ReplayReportResponse(s, u, points, forecastStats, ruleStats, dayTypeStats, hourlyStats, driftStats) ==
    [since |-> s, until |-> u, points |-> points, forecastStats |-> forecastStats,
     ruleStats |-> ruleStats, dayTypeStats |-> dayTypeStats,
     hourlyStats |-> hourlyStats, driftStats |-> driftStats]

MinIndexLast(points, target_ts) ==
    CHOOSE k \in 1..Len(points) :
        /\ \A j \in 1..Len(points) :
               Abs(points[k].ts - target_ts) <= Abs(points[j].ts - target_ts)
        /\ \A j \in (k + 1)..Len(points) :
               Abs(points[j].ts - target_ts) > Abs(points[k].ts - target_ts)

\* index of the element min(points, key=lambda p: abs(p.ts - target_ts))
\* returns: the first one of minimal distance
MinIndex(points, target_ts) ==
    CHOOSE k \in 1..Len(points) :
        /\ \A j \in 1..Len(points) :
               Abs(points[k].ts - target_ts) <= Abs(points[j].ts - target_ts)
        /\ \A j \in 1..(k - 1) :
               Abs(points[j].ts - target_ts) > Abs(points[k].ts - target_ts)

_closest_glucose(points, target_ts, tolerance) ==
    IF points = <<>> THEN None
    ELSE LET best == points[MinIndex(points, target_ts)]
         IN  IF Abs(best.ts - target_ts) > tolerance THEN None ELSE best

ToleranceOfHorizon(horizon) == horizon

\* tolerance_ms = 5 * 60 * 1000 if fc.horizon <= 10 else 15 * 60 * 1000
Tolerance(horizon) == IF horizon <= 10 THEN 5 ELSE 15

ErrorSampleNonZero(actual, fc) ==
    LET abs_error == RAbs(RSub(actual.valueMmol, fc.valueMmol))
        sq_error  == RMul(abs_error, abs_error)
        ard       == IF actual.valueMmol # Rat(0)
                     THEN RDiv(abs_error, actual.valueMmol) ELSE Rat(0)
    IN  <<abs_error, sq_error, ard, actual.ts>>

\* the tuple (abs_error, sq_error, ard, actual.ts)
ErrorSample(actual, fc) ==
    LET abs_error == RAbs(RSub(actual.valueMmol, fc.valueMmol))
        sq_error  == RMul(abs_error, abs_error)
        ard       == IF RLess(Rat(0), actual.valueMmol)
                     THEN RDiv(abs_error, actual.valueMmol) ELSE Rat(0)
    IN  <<abs_error, sq_error, ard, actual.ts>>

AppendSampleOverwrite(errors, h, sample) ==
    [k \in (DOMAIN errors) \cup {h} |-> IF k = h THEN <<sample>> ELSE errors[k]]

\* horizon_errors[h].append(sample) on a defaultdict(list)
AppendSample(errors, h, sample) ==
    IF h \in DOMAIN errors THEN [errors EXCEPT ![h] = Append(@, sample)]
    ELSE [k \in (DOMAIN errors) \cup {h} |-> IF k = h THEN <<sample>> ELSE errors[k]]

RECURSIVE ScoreForecasts(_, _, _)
ScoreForecasts(errors, forecasts, points) ==
    IF forecasts = <<>> THEN errors
    ELSE LET fc     == Head(forecasts)
             actual == _closest_glucose(points, fc.ts, Tolerance(fc.horizon))
         IN  ScoreForecasts(IF actual = None THEN errors
                            ELSE AppendSample(errors, fc.horizon, ErrorSample(actual, fc)),
                            Tail(forecasts), points)

StrideCeil(stepMinutes) == Max(1, (Max(1, stepMinutes) + 4) \div 5)

Stride(stepMinutes) == Max(1, Max(1, stepMinutes) \div 5)

\* sorted(keys) of a dict with integer keys
RECURSIVE SortedKeys(_)
SortedKeys(S) ==
    IF S = {} THEN <<>>
    ELSE LET m == CHOOSE x \in S : \A y \in S : x <= y
         IN  <<m>> \o SortedKeys(S \ {m})

Column(rows, c) == [k \in 1..Len(rows) |-> rows[k][c]]

ReplayForecastStatsWrongColumn(horizon, rows) ==
    LET n == Rat(Len(rows))
    IN  [horizon |-> horizon, sampleCount |-> Len(rows),
         mae     |-> RDiv(RSum(Column(rows, 2)), n),
         rmseSq  |-> RDiv(RSum(Column(rows, 2)), n),
         mardPct |-> RMul(RDiv(RSum(Column(rows, 3)), n), Rat(100))]

ReplayForecastStats(horizon, rows) ==
    LET n == Rat(Len(rows))
    IN  [horizon |-> horizon, sampleCount |-> Len(rows),
         mae     |-> RDiv(RSum(Column(rows, 1)), n),
         rmseSq  |-> RDiv(RSum(Column(rows, 2)), n),
         mardPct |-> RMul(RDiv(RSum(Column(rows, 3)), n), Rat(100))]

RECURSIVE StatsOver(_, _)
StatsOver(keys, errors) ==
    IF keys = <<>> THEN <<>>
    ELSE LET rest == StatsOver(Tail(keys), errors)
             rows == errors[Head(keys)]
         IN  IF rows = <<>> THEN rest
             ELSE <<ReplayForecastStats(Head(keys), rows)>> \o rest

DayTypeEpochMonday(ts) == IF (ts \div 1440) % 7 >= 5 THEN "WEEKEND" ELSE "WEEKDAY"

\* datetime.fromtimestamp(ts / 1000, tz=UTC).weekday() >= 5; day 0 of the
\* epoch is a Thursday (weekday 3), a day has 1440 ticks
DayType(ts) == IF ((ts \div 1440) + 3) % 7 >= 5 THEN "WEEKEND" ELSE "WEEKDAY"

HourOfLocal(ts) == ((ts \div 60) + 1) % 24

\* datetime.fromtimestamp(ts / 1000, tz=UTC).hour
HourOf(ts) == (ts \div 60) % 24

RowsOfDayType(rows, day_type) ==
    LET Test(r) == DayType(r[4]) = day_type
    IN  SelectSeq(rows, Test)

\* grouped[day_type]: only the horizons that received a sample of that type
Grouped(errors, day_type) ==
    LET keys == {h \in DOMAIN errors : RowsOfDayType(errors[h], day_type) # <<>>}
    IN  [h \in keys |-> RowsOfDayType(errors[h], day_type)]

ReplayDayTypeStats(errors, day_type) ==
    LET grouped == Grouped(errors, day_type)
    IN  [dayType |-> day_type,
         forecastStats |-> StatsOver(SortedKeys(DOMAIN grouped), grouped)]

_build_day_type_stats(errors) ==
    <<ReplayDayTypeStats(errors, "WEEKDAY"), ReplayDayTypeStats(errors, "WEEKEND")>>

ReplayHourStats(hour, rows) ==
    LET n == Rat(Len(rows))
    IN  [hour |-> hour, sampleCount |-> Len(rows),
         mae     |-> RDiv(RSum(Column(rows, 1)), n),
         rmseSq  |-> RDiv(RSum(Column(rows, 2)), n),
         mardPct |-> RMul(RDiv(RSum(Column(rows, 3)), n), Rat(100))]

RowsOfHour(rows, hour) ==
    LET Test(r) == HourOf(r[4]) = hour
    IN  SelectSeq(rows, Test)

\* for hour in range(24): the hours that hold a row, ascending
HourRows(rows) ==
    LET hours == SortedKeys({h \in 0..23 : RowsOfHour(rows, h) # <<>>})
    IN  [k \in 1..Len(hours) |-> ReplayHourStats(hours[k], RowsOfHour(rows, hours[k]))]

_build_hourly_stats(errors) ==
    IF DOMAIN errors = {} THEN <<>>
    ELSE LET selected_horizon ==
                 IF 5 \in DOMAIN errors THEN 5
                 ELSE CHOOSE h \in DOMAIN errors : \A k \in DOMAIN errors : h <= k
         IN  HourRows(errors[selected_horizon])

\* sorted(rows, key=lambda r: r[3]), stable like SortedByTs
SortedByActualTs(s) ==
    IF \A k \in 1..(Len(s) - 1) : s[k][4] <= s[k + 1][4] THEN s
    ELSE LET Rank(j) == 1 + Cardinality({k \in 1..Len(s) :
                            \/ s[k][4] < s[j][4]
                            \/ s[k][4] = s[j][4] /\ k < j})
         IN  [p \in 1..Len(s) |-> s[CHOOSE j \in 1..Len(s) : Rank(j) = p]]

DriftMinSamples == 10

DriftSplitCeil(n) == (n + 1) \div 2
DriftSplit(n) == n \div 2

ReplayDriftStats(horizon, rows) ==
    LET split      == DriftSplit(Len(rows))
        prev       == SubSeq(rows, 1, split)
        recent     == SubSeq(rows, split + 1, Len(rows))
        prev_mae   == RDiv(RSum(Column(prev, 1)), Rat(Len(prev)))
        recent_mae == RDiv(RSum(Column(recent, 1)), Rat(Len(recent)))
    IN  [horizon |-> horizon, previousMae |-> prev_mae, recentMae |-> recent_mae,
         deltaMae |-> RSub(recent_mae, prev_mae)]

RECURSIVE DriftOver(_, _)
DriftOver(keys, errors) ==
    IF keys = <<>> THEN <<>>
    ELSE LET rows == SortedByActualTs(errors[Head(keys)])
             rest == DriftOver(Tail(keys), errors)
         IN  IF Len(rows) < DriftMinSamples THEN rest
             ELSE <<ReplayDriftStats(Head(keys), rows)>> \o rest

_build_drift_stats(errors) == DriftOver(SortedKeys(DOMAIN errors), errors)

(***************************************************************************)
(* replay_service.py: build_replay_report as a state machine.  One slot is *)
(* one invocation (one request thread); its locals are the slot's entries. *)
(***************************************************************************)
MinReplayPointsLow == 30 - 1
MinReplayPoints == 30

FirstIndexEarly == 24 - 1
FirstIndex == 24

WindowBackDouble == 72 + 72
WindowBack == 72

TherapyWindow == 24 * 60

\* the accumulator an invocation writes: horizon_errors and rule_counter are
\* created inside the call, one pair per invocation
AccShared(s) == 1
AccOf(s) == s

EmptyReport(s) ==
    ReplayReportResponse(since[s], until[s], Len(sorted_glucose'[s]), <<>>,
                         <<ReplayRuleStats(0, 0, 0)>>, <<>>, <<>>, <<>>)

RuleArgumentTherapyGated(wg, wt) == IF wt # <<>> THEN <<>> ELSE wg

\* decision = evaluate_post_hypo_rebound(window_glucose): of the two windows
\* built at a step, the rule evaluator is handed the glucose window
RuleArgument(wg, wt) == wg

Begin(s) ==
    /\ pc[s] = "begin"
    /\ LET sg == SortedByTs(SelectInRange(glucose[s], since[s], until[s]))
           st == SortedByTs(SelectInRange(therapy_events[s], since[s], until[s]))
       IN  /\ sorted_glucose' = [sorted_glucose EXCEPT ![s] = sg]
           /\ sorted_therapy' = [sorted_therapy EXCEPT ![s] = st]
           /\ glucose' = [glucose EXCEPT ![s] = ArgAfterSorted(@, sg)]
           /\ therapy_events' = [therapy_events EXCEPT ![s] = ArgAfterSorted(@, st)]
           /\ IF Len(sg) < MinReplayPoints
              THEN /\ report' = [report EXCEPT ![s] = EmptyReport(s)]
                   /\ pc' = [pc EXCEPT ![s] = "done"]
                   /\ UNCHANGED <<i, horizon_errors, rule_counter>>
              ELSE /\ horizon_errors' = [horizon_errors EXCEPT ![AccOf(s)] = EmptyDict]
                   /\ rule_counter' = [rule_counter EXCEPT ![AccOf(s)] = ZeroCounter]
                   /\ i' = [i EXCEPT ![s] = FirstIndex]
                   /\ pc' = [pc EXCEPT ![s] = "loop"]
                   /\ UNCHANGED report
    /\ UNCHANGED <<since, until, step_minutes, window_glucose, window_therapy,
                   sim_calls, fnVars, apiVars>>

Step(s) ==
    /\ pc[s] = "loop"
    /\ i[s] < Len(sorted_glucose[s])
    /\ LET current      == sorted_glucose[s][i[s] + 1]
           wg           == Slice(sorted_glucose[s], Max(0, i[s] - WindowBack), i[s] + 1)
           window_start == current.ts - TherapyWindow
           wt           == SelectInRange(sorted_therapy[s], window_start, current.ts)
           forecasts    == predict(wg)
           decision     == evaluate_post_hypo_rebound(RuleArgument(wg, wt))
       IN  /\ window_glucose' = [window_glucose EXCEPT ![s] = wg]
           /\ window_therapy' = [window_therapy EXCEPT ![s] = wt]
           /\ horizon_errors' = [horizon_errors EXCEPT ![AccOf(s)] =
                                     ScoreForecasts(@, forecasts, sorted_glucose[s])]
           /\ rule_counter' = [rule_counter EXCEPT ![AccOf(s)][decision.state] = @ + 1]
    /\ sim_calls' = [sim_calls EXCEPT ![s] =
                         [predict |-> @.predict + 1, rule |-> @.rule + 1]]
    /\ i' = [i EXCEPT ![s] = @ + Stride(step_minutes[s])]
    /\ UNCHANGED <<glucose, therapy_events, since, until, step_minutes, pc,
                   sorted_glucose, sorted_therapy, report, fnVars, apiVars>>

Finish(s) ==
    /\ pc[s] = "loop"
    /\ i[s] >= Len(sorted_glucose[s])
    /\ LET errors  == horizon_errors[AccOf(s)]
           counter == rule_counter[AccOf(s)]
       IN  report' = [report EXCEPT ![s] =
               ReplayReportResponse(since[s], until[s], Len(sorted_glucose[s]),
                   StatsOver(SortedKeys(DOMAIN errors), errors),
                   <<ReplayRuleStats(counter["TRIGGERED"], counter["BLOCKED"],
                                     counter["NO_MATCH"])>>,
                   _build_day_type_stats(errors),
                   _build_hourly_stats(errors),
                   _build_drift_stats(errors))]
    /\ pc' = [pc EXCEPT ![s] = "done"]
    /\ UNCHANGED <<glucose, therapy_events, since, until, step_minutes,
                   sorted_glucose, sorted_therapy, i, window_glucose, window_therapy,
                   horizon_errors, rule_counter, sim_calls, fnVars, apiVars>>

Invocation(s) == Begin(s) \/ Step(s) \/ Finish(s)

(***************************************************************************)
(* Inputs of build_replay_report                                           *)
(***************************************************************************)
MinReadings == 28

MaxReadings == 35

\* Friday 22:00 UTC of the first week of the epoch, in ticks
StartTick == 1440 + 22 * 60

Patterns == {"zigzag", "hypo", "gaps"}

\* value of the reading at 0-based position k of a 5-minute series
PatternValue(p, k) ==
    IF p = "zigzag"
    THEN (IF k <= 24 \/ k % 2 = 0 THEN Rat(5) ELSE Rat(6 + ((k - 25) \div 2)))
    ELSE IF p = "gaps"
    THEN (IF k = 27 THEN Rat(7)
          ELSE IF k = 29 THEN Rat(0)
          ELSE IF k = 31 THEN Rat(-1)
          ELSE IF k % 2 = 0 THEN Rat(5) ELSE Rat(6))
    ELSE (IF k = 20 \/ k = 21 THEN Rat(3)
          ELSE IF k = 22 THEN Tenths(35)
          ELSE IF k = 23 THEN Rat(4)
          ELSE IF k = 24 THEN Tenths(45)
          ELSE Rat(5))

\* minutes from the first reading to the one at 0-based position k: every
\* 5 minutes, except that in "gaps" the readings at positions 26 and 27 share
\* a timestamp 10 minutes after position 25 and 10 minutes before position 28
PatternOffset(p, k) ==
    IF p # "gaps" \/ k <= 25 THEN 5 * k
    ELSE IF k <= 27 THEN 135
    ELSE 5 * k + 5

\* the timestamp of the first reading: Friday 22:00, and for "gaps" Sunday
\* 21:40 of the same week, so that its simulated steps run across midnight
\* into Monday
PatternStart(p) == IF p = "gaps" THEN 3 * 1440 + 21 * 60 + 40 ELSE StartTick

Series(p, n) ==
    [j \in 1..n |-> GlucosePoint(PatternStart(p) + PatternOffset(p, j - 1),
                                 PatternValue(p, j - 1), "cgm")]

Reverse(s) == [j \in 1..Len(s) |-> s[Len(s) + 1 - j]]

Orders == {"asc", "desc"}

Ordered(s, order) == IF order = "asc" THEN s ELSE Reverse(s)

RangeOffsets == {-1, 0, 1}

StepChoices == {0, 5, 10, 12, 60}

TherapyChoices ==
    { <<>>,
      << TherapyEvent("e2", StartTick + 50, "bolus"),
         TherapyEvent("e0", StartTick - 10, "carbs"),
         TherapyEvent("e1", StartTick + 20, "temp_target") >> }

ReplayInput(p, n, order, ds, du, sm, th) ==
    [glucose |-> Ordered(Series(p, n), order),
     therapy_events |->
         [k \in 1..Len(th) |-> [th[k] EXCEPT !.ts = @ + (PatternStart(p) - StartTick)]],
     since |-> PatternStart(p) + ds,
     until |-> PatternStart(p) + PatternOffset(p, n - 1) + du,
     step_minutes |-> sm]

FnIdle ==
    /\ fn_name = "none" /\ fn_glucose = <<>> /\ fn_pc = "idle" /\ fn_result = None

Init ==
    /\ \E p \in Patterns, n \in MinReadings..MaxReadings, order \in Orders,
          ds \in RangeOffsets, du \in RangeOffsets, sm \in StepChoices,
          th \in TherapyChoices :
        LET in == ReplayInput(p, n, order, ds, du, sm, th)
        IN
          /\ glucose = [s \in Slots |-> IF s = 1 THEN in.glucose ELSE <<>>]
          /\ therapy_events = [s \in Slots |-> IF s = 1 THEN in.therapy_events ELSE <<>>]
          /\ since = [s \in Slots |-> IF s = 1 THEN in.since ELSE 0]
          /\ until = [s \in Slots |-> IF s = 1 THEN in.until ELSE 0]
          /\ step_minutes = [s \in Slots |-> IF s = 1 THEN in.step_minutes ELSE 5]
    /\ pc = [s \in Slots |-> IF s = 1 THEN "begin" ELSE "idle"]
    /\ FreshLocals
    /\ FnIdle
    /\ ApiIdle

Next == Invocation(1)

Spec == Init /\ [][Next]_vars

(***************************************************************************)
(* Properties of evaluate_post_hypo_rebound and predict (SpecFn)           *)
(***************************************************************************)
EvaluateReturned == fn_pc = "returned" /\ fn_name = "evaluate_post_hypo_rebound"

PredictReturned == fn_pc = "returned" /\ fn_name = "predict"

\* g has strictly increasing timestamps once put in time order, and its
\* values in time order are vals (given in tenths of mmol/L)
ValuesInTimeOrder(g, vals) ==
    /\ Len(g) = Len(vals)
    /\ \A j, k \in 1..Len(g) : j # k => g[j].ts # g[k].ts
    /\ \A j \in 1..Len(g) :
          g[j].valueMmol = Tenths(vals[1 + Cardinality({k \in 1..Len(g) : g[k].ts < g[j].ts})])

TempTarget44For60(d) ==
    /\ d.state = "TRIGGERED"
    /\ d.actionProposal # None
    /\ d.actionProposal.type = "temp_target"
    /\ d.actionProposal.targetMmol = <<22, 5>>
    /\ d.actionProposal.durationMinutes = 60

NoMatchBecause(d, reason) ==
    /\ d.state = "NO_MATCH"
    /\ d.reasons = <<reason>>
    /\ d.actionProposal = None

\* C2 as stated: the four readings 3.0, 3.0, 3.3, 3.7 in time order make the
\* rule answer TRIGGERED with a temp_target proposal of 4.4 for 60 minutes.
C2_FourReadingsTrigger ==
    (EvaluateReturned /\ ValuesInTimeOrder(fn_result.arg, <<30, 30, 33, 37>>))
        => TempTarget44For60(fn_result.value)

\* C2 amended: the four readings 3.0, 3.0, 3.3, 3.7 leave only two readings
\* after the latest reading <= 3.0, so the answer is NO_MATCH with reasons
\* [insufficient_post_hypo_points] and no proposal; with one more rising
\* reading (3.0, 3.0, 3.3, 3.7, 4.1) the answer is TRIGGERED with the
\* temp_target proposal of 4.4 for 60 minutes.
C2_ThreePostHypoReadingsTrigger ==
    /\ (EvaluateReturned /\ ValuesInTimeOrder(fn_result.arg, <<30, 30, 33, 37>>))
          => NoMatchBecause(fn_result.value, "insufficient_post_hypo_points")
    /\ (EvaluateReturned /\ ValuesInTimeOrder(fn_result.arg, <<30, 30, 33, 37, 41>>))
          => TempTarget44For60(fn_result.value)

C2_Witness ==
    /\ EvaluateReturned
    /\ ValuesInTimeOrder(fn_result.arg, <<30, 30, 33, 37, 41>>)
    /\ fn_result.arg[1].ts > fn_result.arg[2].ts
    /\ fn_result.value.state = "TRIGGERED"

\* C3 as stated: the four readings 3.0, 3.0, 3.3, 3.4 in time order make the
\* rule answer NO_MATCH with reasons exactly [no_rebound].
C3_FourReadingsNoRebound ==
    (EvaluateReturned /\ ValuesInTimeOrder(fn_result.arg, <<30, 30, 33, 34>>))
        => NoMatchBecause(fn_result.value, "no_rebound")

\* C3 amended: the four readings 3.0, 3.0, 3.3, 3.4 are answered NO_MATCH
\* with reasons [insufficient_post_hypo_points]; the series that triggers,
\* with its last delta cut to +0.1 (3.0, 3.0, 3.3, 3.7, 3.8), is answered
\* NO_MATCH with reasons exactly [no_rebound].
C3_ThreePostHypoReadingsNoRebound ==
    /\ (EvaluateReturned /\ ValuesInTimeOrder(fn_result.arg, <<30, 30, 33, 34>>))
          => NoMatchBecause(fn_result.value, "insufficient_post_hypo_points")
    /\ (EvaluateReturned /\ ValuesInTimeOrder(fn_result.arg, <<30, 30, 33, 37, 38>>))
          => NoMatchBecause(fn_result.value, "no_rebound")

C3_Witness ==
    /\ EvaluateReturned
    /\ ValuesInTimeOrder(fn_result.arg, <<30, 30, 33, 37, 38>>)
    /\ fn_result.value.reasons = <<"no_rebound">>

\* C4: on 0, 1, 2 or 3 readings, whatever their values and timestamps, the
\* rule answers NO_MATCH with reasons exactly [insufficient_points] and no
\* action proposal.
C4_FewerThanFourReadings ==
    (EvaluateReturned /\ Len(fn_result.arg) < 4)
        => NoMatchBecause(fn_result.value, "insufficient_points")

C4_Witness ==
    /\ EvaluateReturned
    /\ Len(fn_result.arg) = 3
    /\ fn_result.arg[1].valueMmol = <<3, 1>>
    /\ fn_result.arg[1].ts < fn_result.arg[2].ts
    /\ fn_result.arg[3].valueMmol = <<41, 10>>
    /\ fn_result.value.reasons = <<"insufficient_points">>

\* C5: on a non-empty list predict returns exactly two forecasts, horizon 5
\* then horizon 60, each with ciLow <= valueMmol <= ciHigh.
C5_BandContainsForecast ==
    (PredictReturned /\ fn_result.arg # <<>>)
        => /\ Len(fn_result.value) = 2
           /\ fn_result.value[1].horizon = 5
           /\ fn_result.value[2].horizon = 60
           /\ \A k \in 1..2 :
                 /\ RLeq(fn_result.value[k].ciLow, fn_result.value[k].valueMmol)
                 /\ RLeq(fn_result.value[k].valueMmol, fn_result.value[k].ciHigh)

(***************************************************************************)
(* Properties of build_replay_report (Spec)                                *)
(***************************************************************************)
\* number of the caller's glucose readings with since <= ts <= until
InRangeCount(s) ==
    Cardinality({k \in 1..Len(glucose[s]) :
                    since[s] <= glucose[s][k].ts /\ glucose[s][k].ts <= until[s]})

Returned(s) == pc[s] = "done"

\* C1: with fewer than 30 readings in [since, until] no simulation step runs
\* and the report has empty forecastStats, dayTypeStats, hourlyStats and
\* driftStats, one all-zero ruleStats row for PostHypoReboundGuard.v1, and
\* points equal to the filtered count.
C1_InsufficientDataGuard ==
    \A s \in Slots :
        (pc[s] # "idle" /\ InRangeCount(s) < 30)
            => /\ sim_calls[s] = [predict |-> 0, rule |-> 0]
               /\ pc[s] \in {"begin", "done"}
               /\ Returned(s) =>
                     /\ report[s].forecastStats = <<>>
                     /\ report[s].dayTypeStats = <<>>
                     /\ report[s].hourlyStats = <<>>
                     /\ report[s].driftStats = <<>>
                     /\ report[s].ruleStats =
                            <<[ruleId |-> "PostHypoReboundGuard.v1", triggered |-> 0,
                               blocked |-> 0, noMatch |-> 0]>>
                     /\ report[s].points = InRangeCount(s)

C1_Witness ==
    \E s \in Slots :
        /\ Returned(s)
        /\ InRangeCount(s) = 29
        /\ Len(glucose[s]) > 29
        /\ report[s].points = 29
        /\ report[s].forecastStats = <<>>

\* C8: points is the number of input readings with since <= ts <= until,
\* both bounds inclusive, whatever stepMinutes is and however many
\* simulation steps ran.
C8_PointsIsFilteredCount ==
    \A s \in Slots : Returned(s) => report[s].points = InRangeCount(s)

C8_Witness ==
    \E s \in Slots :
        /\ Returned(s)
        /\ \E k \in 1..Len(glucose[s]) : glucose[s][k].ts = until[s]
        /\ \E k \in 1..Len(glucose[s]) : glucose[s][k].ts < since[s]
        /\ report[s].points = Len(glucose[s]) - 1
        /\ sim_calls[s].predict > 0
        /\ sim_calls[s].predict < report[s].points - 24
        /\ step_minutes[s] = 10

\* the error samples an invocation collected for horizon h
SamplesOf(s, h) == IF h \in DOMAIN horizon_errors[s] THEN horizon_errors[s][h] ELSE <<>>

Simulated(s) == Returned(s) /\ Len(sorted_glucose[s]) >= 30

Horizons == {5, 60}

SumOfAbs(rows) == RSum([k \in 1..Len(rows) |-> rows[k][1]])

SumOfSquares(rows) == RSum([k \in 1..Len(rows) |-> RMul(rows[k][1], rows[k][1])])

SumOfArd(rows) == RSum([k \in 1..Len(rows) |-> rows[k][3]])

InActualTsOrder(rows) == \A k \in 1..(Len(rows) - 1) : rows[k][4] <= rows[k + 1][4]

\* C9: driftStats has an entry for a horizon exactly when the horizon has at
\* least 10 samples; with the n samples in ascending actual-timestamp order,
\* previousMae is the mean absolute error of the first floor(n/2) of them,
\* recentMae that of the other n - floor(n/2), deltaMae = recentMae - previousMae.
C9_DriftHalves ==
    \A s \in Slots : Simulated(s) =>
        /\ DOMAIN horizon_errors[s] \subseteq Horizons
        /\ \A h \in Horizons :
              LET rows    == SamplesOf(s, h)
                  n       == Len(rows)
                  half    == n \div 2
                  entries == {k \in 1..Len(report[s].driftStats) :
                                 report[s].driftStats[k].horizon = h}
              IN  /\ InActualTsOrder(rows)
                  /\ Cardinality(entries) = (IF n >= 10 THEN 1 ELSE 0)
                  /\ \A k \in entries :
                        LET d == report[s].driftStats[k]
                        IN  /\ RMul(d.previousMae, Rat(half)) = SumOfAbs(SubSeq(rows, 1, half))
                            /\ RMul(d.recentMae, Rat(n - half)) = SumOfAbs(SubSeq(rows, half + 1, n))
                            /\ d.deltaMae = RSub(d.recentMae, d.previousMae)

C9_Witness ==
    \E s \in Slots :
        /\ Simulated(s)
        /\ Len(SamplesOf(s, 5)) = 11
        /\ Len(SamplesOf(s, 60)) \in 1..9
        /\ Len(report[s].driftStats) = 1
        /\ report[s].driftStats[1].horizon = 5
        /\ report[s].driftStats[1].deltaMae # <<0, 1>>
        /\ RMul(report[s].driftStats[1].previousMae, Rat(5))
              = SumOfAbs(SubSeq(SamplesOf(s, 5), 1, 5))
        /\ RMul(report[s].driftStats[1].previousMae, Rat(6))
              # SumOfAbs(SubSeq(SamplesOf(s, 5), 1, 6))

\* C10: for every horizon with n >= 1 samples forecastStats has one row with
\* mae = (sum of absolute errors)/n, rmse^2 = (sum of squared errors)/n and
\* mardPct = 100 * (sum of absolute relative differences)/n; absolute errors
\* 1, 2, 3 give mae = 2 and rmse^2 = 14/3.
C10_ClosedFormStats ==
    \A s \in Slots : Simulated(s) =>
        \A h \in DOMAIN horizon_errors[s] :
            LET rows == horizon_errors[s][h]
                n    == Len(rows)
                mine == {k \in 1..Len(report[s].forecastStats) :
                            report[s].forecastStats[k].horizon = h}
            IN  /\ n >= 1
                /\ Cardinality(mine) = 1
                /\ \A k \in mine :
                      LET row == report[s].forecastStats[k]
                      IN  /\ RMul(row.mae, Rat(n)) = SumOfAbs(rows)
                          /\ RMul(row.rmseSq, Rat(n)) = SumOfSquares(rows)
                          /\ RMul(row.mardPct, Rat(n)) = RMul(Rat(100), SumOfArd(rows))
                          /\ [j \in 1..n |-> rows[j][1]] = <<Rat(1), Rat(2), Rat(3)>>
                                => row.mae = <<2, 1>> /\ row.rmseSq = <<14, 3>>

C10_Witness ==
    \E s \in Slots :
        /\ Simulated(s)
        /\ 5 \in DOMAIN horizon_errors[s]
        /\ [j \in 1..Len(horizon_errors[s][5]) |-> horizon_errors[s][5][j][1]]
              = <<Rat(1), Rat(2), Rat(3)>>
        /\ report[s].forecastStats[1].mae = <<2, 1>>
        /\ report[s].forecastStats[1].rmseSq = <<14, 3>>

(***************************************************************************)
(* Two invocations of build_replay_report served at the same time          *)
(* (FastAPI runs the synchronous handler on a thread pool), interleaved    *)
(* step by step.                                                           *)
(***************************************************************************)
ConcReadings == {29, 31}

ConcSteps == {5, 10}

InitConc ==
    /\ \E p \in [Slots -> Patterns], n \in [Slots -> ConcReadings],
          sm \in [Slots -> ConcSteps] :
          LET in == [s \in Slots |-> ReplayInput(p[s], n[s], "asc", 0, 0, sm[s], <<>>)]
          IN  /\ glucose = [s \in Slots |-> in[s].glucose]
              /\ therapy_events = [s \in Slots |-> in[s].therapy_events]
              /\ since = [s \in Slots |-> in[s].since]
              /\ until = [s \in Slots |-> in[s].until]
              /\ step_minutes = [s \in Slots |-> in[s].step_minutes]
    /\ pc = [s \in Slots |-> "begin"]
    /\ FreshLocals
    /\ FnIdle
    /\ ApiIdle

NextConc == \E s \in Slots : Invocation(s)

SpecConc == InitConc /\ [][NextConc]_vars

SameInputs(a, b) ==
    /\ glucose[a] = glucose[b] /\ therapy_events[a] = therapy_events[b]
    /\ since[a] = since[b] /\ until[a] = until[b]
    /\ step_minutes[a] = step_minutes[b]

\* C6: two invocations with identical glucose, therapy events, since, until
\* and stepMinutes, run back to back or interleaved, return identical reports.
C6_Deterministic ==
    \A a, b \in Slots :
        (Returned(a) /\ Returned(b) /\ SameInputs(a, b)) => report[a] = report[b]

C6_Witness ==
    /\ Returned(1) /\ Returned(2)
    /\ SameInputs(1, 2)
    /\ Len(glucose[1]) = 31
    /\ report[1] = report[2]
    /\ report[1].forecastStats # <<>>
    /\ report[1].ruleStats[1].triggered > 0

(***************************************************************************)
(* Direct calls of _build_hourly_stats                                     *)
(***************************************************************************)
\* _build_hourly_stats applied to a dict of error samples: the horizons that
\* received a sample, each with its list of (abs_error, sq_error, ard, ts)
MaxSamples == 2

StatsHorizons == {5, 15, 60}

\* samples at Sunday 23:50, Monday 00:10 and Monday 23:05
StatsSamples ==
    { <<Tenths(5), Hundredths(25), Tenths(1), 3 * 1440 + 23 * 60 + 50>>,
      <<Rat(1), Rat(1), Tenths(2), 4 * 1440 + 10>>,
      <<Rat(2), Rat(4), Tenths(4), 4 * 1440 + 23 * 60 + 5>> }

ErrorLists == UNION {[1..n -> StatsSamples] : n \in 1..MaxSamples}

ErrorDicts == UNION {[K -> ErrorLists] : K \in SUBSET StatsHorizons}

InitStats ==
    /\ ReplayIdle
    /\ fn_name = "_build_hourly_stats"
    /\ fn_glucose \in ErrorDicts
    /\ fn_pc = "ready"
    /\ fn_result = None
    /\ ApiIdle

CallHourly ==
    /\ fn_pc = "ready"
    /\ fn_name = "_build_hourly_stats"
    /\ fn_result' = [arg |-> fn_glucose, value |-> _build_hourly_stats(fn_glucose)]
    /\ fn_pc' = "returned"
    /\ UNCHANGED <<fn_name, fn_glucose, replayVars, apiVars>>

\* one call of build_replay_report, or one direct call of _build_hourly_stats
SpecReport == (Init \/ InitStats) /\ [][Next \/ CallHourly]_vars

(***************************************************************************)
(* Two calls of build_replay_report that differ in the therapy events only  *)
(***************************************************************************)
TherapyReadings == {29, 31}

TherapyLists ==
    TherapyChoices \cup {<< TherapyEvent("e3", StartTick + 125, "insulin") >>}

InitTherapy ==
    /\ \E p \in Patterns, n \in TherapyReadings, sm \in ConcSteps,
          th \in [Slots -> TherapyLists] :
          LET in == [s \in Slots |-> ReplayInput(p, n, "asc", 0, 0, sm, th[s])]
          IN  /\ glucose = [s \in Slots |-> in[s].glucose]
              /\ therapy_events = [s \in Slots |-> in[s].therapy_events]
              /\ since = [s \in Slots |-> in[s].since]
              /\ until = [s \in Slots |-> in[s].until]
              /\ step_minutes = [s \in Slots |-> in[s].step_minutes]
    /\ pc = [s \in Slots |-> "begin"]
    /\ FreshLocals
    /\ FnIdle
    /\ ApiIdle

SpecTherapy == InitTherapy /\ [][NextConc]_vars

(***************************************************************************)
(* One call of build_replay_report on a series longer than the rolling     *)
(* glucose window of 73 readings                                           *)
(***************************************************************************)
MaxLongReadings == 76

InitLong ==
    /\ \E n \in (MaxLongReadings - 2)..MaxLongReadings, order \in Orders,
          sm \in ConcSteps :
        LET in == ReplayInput("hypo", n, order, 0, 0, sm, <<>>)
        IN
          /\ glucose = [s \in Slots |-> IF s = 1 THEN in.glucose ELSE <<>>]
          /\ therapy_events = [s \in Slots |-> <<>>]
          /\ since = [s \in Slots |-> IF s = 1 THEN in.since ELSE 0]
          /\ until = [s \in Slots |-> IF s = 1 THEN in.until ELSE 0]
          /\ step_minutes = [s \in Slots |-> IF s = 1 THEN in.step_minutes ELSE 5]
    /\ pc = [s \in Slots |-> IF s = 1 THEN "begin" ELSE "idle"]
    /\ FreshLocals
    /\ FnIdle
    /\ ApiIdle

SpecLong == InitLong /\ [][Next]_vars

(***************************************************************************)
(* One call of build_replay_report for a range of stepMinutes, run to its  *)
(* end: the call is synchronous, so a step that can be taken is taken       *)
(***************************************************************************)
StepMinutesChoices == {-60, -7, -5, -1, 0, 1, 4, 5, 7, 9, 10, 12, 60, 100000}

StepReadings == {29, 30, 33}

InitSteps ==
    /\ \E p \in {"zigzag", "hypo"}, n \in StepReadings, sm \in StepMinutesChoices :
        LET in == ReplayInput(p, n, "desc", 0, 0, sm, <<>>)
        IN
          /\ glucose = [s \in Slots |-> IF s = 1 THEN in.glucose ELSE <<>>]
          /\ therapy_events = [s \in Slots |-> <<>>]
          /\ since = [s \in Slots |-> IF s = 1 THEN in.since ELSE 0]
          /\ until = [s \in Slots |-> IF s = 1 THEN in.until ELSE 0]
          /\ step_minutes = [s \in Slots |-> IF s = 1 THEN in.step_minutes ELSE 5]
    /\ pc = [s \in Slots |-> IF s = 1 THEN "begin" ELSE "idle"]
    /\ FreshLocals
    /\ FnIdle
    /\ ApiIdle

SpecSteps == InitSteps /\ [][Next]_vars /\ WF_vars(Next)

(***************************************************************************)
(* Every entry point: one behaviour is one call of build_replay_report,    *)
(* of predict or of evaluate_post_hypo_rebound.                            *)
(***************************************************************************)
InitAll == Init \/ InitFn

NextAll == Next \/ NextFn

SpecAll == InitAll /\ [][NextAll]_vars

Some(v) == [some |-> v]

\* the Python expression x or default, for an Optional[int] x
OrElse(x, default) == IF x = None THEN default ELSE IF x.some = 0 THEN default ELSE x.some

GlucosePointOrm(id, ts, value_mmol, source, quality) ==
    [id |-> id, ts |-> ts, value_mmol |-> value_mmol, source |-> source,
     quality |-> quality]

\* rowid is the row number SQLite keeps for a table with a TEXT primary key
TherapyEventOrm(rowid, id, ts, event_type, payload_json) ==
    [rowid |-> rowid, id |-> id, ts |-> ts, event_type |-> event_type,
     payload_json |-> payload_json]

ModelRegistryOrm(id, horizon, model_version, mae, updated_at) ==
    [id |-> id, horizon |-> horizon, model_version |-> model_version, mae |-> mae,
     updated_at |-> updated_at]

\* json.dumps of a dict of strings: its members, one <<key, value>> per key
RECURSIVE json_dumps(_)
json_dumps(d) ==
    IF DOMAIN d = {} THEN <<>>
    ELSE LET k == CHOOSE x \in DOMAIN d : TRUE
         IN  <<<<k, d[k]>>>> \o json_dumps([x \in (DOMAIN d) \ {k} |-> d[x]])

\* json.loads(text or "{}"): the dict whose members the text lists
json_loads(text) ==
    [k \in {text[j][1] : j \in 1..Len(text)} |->
        text[CHOOSE j \in 1..Len(text) :
                 text[j][1] = k /\ \A m \in (j + 1)..Len(text) : text[m][1] # k][2]]

\* the value an autoincrement key takes for the next row of a table: one
\* more than the largest key, which is the number of rows since no row is
\* ever deleted
NextRowId(rows) == 1 + Cardinality(rows)

SeedReadings == 72

\* ensure_seed_data, run once at start-up at time now: 72 readings five
\* minutes apart ending at now, one temp target, the two registered models
ensure_seed_data(now) ==
    [glucose_points |->
        { GlucosePointOrm(k + 1, now - (SeedReadings - 1 - k) * 5,
                          Tenths(58 + ((k % 6) - 3)), "seed", "OK") :
            k \in 0..(SeedReadings - 1) },
     therapy_events |->
        { TherapyEventOrm(1, "seed-temp-target", now - 30, "temp_target",
              json_dumps([k \in {"targetBottom", "duration"} |->
                             IF k = "duration" THEN "60" ELSE "5.5"])) },
     model_registry |->
        { ModelRegistryOrm(1, 5, "cloud-hf-v1", Hundredths(42), now),
          ModelRegistryOrm(2, 60, "cloud-ensemble-v1", Hundredths(108), now) },
     actions |-> {},
     kv_store |-> [k \in {"seeded"} |-> "1"],
     analysis_reports |-> {}]

\* the rows with since <= ts <= until; a bound that is None does not filter
RowsInRange(rows, lo, hi) ==
    {r \in rows : /\ (lo # None => r.ts >= lo.some)
                  /\ (hi # None => r.ts <= hi.some)}

\* ORDER BY ts ASC; rows of equal ts come in the order of the row key
OrderByTs(rows, key) ==
    LET Rank(r) == 1 + Cardinality({q \in rows :
                           \/ q.ts < r.ts
                           \/ q.ts = r.ts /\ key[q] < key[r]})
    IN  [p \in 1..Cardinality(rows) |-> CHOOSE r \in rows : Rank(r) = p]

list_glucose(database, lo, hi) ==
    LET rows    == RowsInRange(database.glucose_points, lo, hi)
        ordered == OrderByTs(rows, [r \in rows |-> r.id])
    IN  [k \in 1..Len(ordered) |->
            [ts |-> ordered[k].ts, valueMmol |-> ordered[k].value_mmol,
             source |-> ordered[k].source, quality |-> ordered[k].quality]]

list_therapy(database, lo, hi) ==
    LET rows    == RowsInRange(database.therapy_events, lo, hi)
        ordered == OrderByTs(rows, [r \in rows |-> r.rowid])
    IN  [k \in 1..Len(ordered) |->
            [id |-> ordered[k].id, ts |-> ordered[k].ts, type |-> ordered[k].event_type,
             payload |-> json_loads(ordered[k].payload_json)]]

(***************************************************************************)
(* main.py: POST /v1/replay/report, served by the thread "request".        *)
(***************************************************************************)
ReplayReportRequest(s, u, stepMinutes) ==
    [since |-> s, until |-> u, stepMinutes |-> stepMinutes]

HTTPException(status_code, detail) == [status_code |-> status_code, detail |-> detail]

Ok(body) == [status_code |-> 200, body |-> body]

FourteenDays == 14 * 24 * 60

\* lines 258-262: read the clock, default the range, reject an invalid one
ReplayReportValidate ==
    /\ handler["request"].pc = "received"
    /\ handler["request"].op = "replay_report"
    /\ LET payload == handler["request"].payload
           now     == clock
           s       == OrElse(payload.since, now - FourteenDays)
           u       == OrElse(payload.until, now)
       IN  IF s >= u
           THEN /\ response' = [response EXCEPT !["request"] =
                                    HTTPException(400, "invalid_range")]
                /\ handler' = [handler EXCEPT !["request"].pc = "done"]
           ELSE /\ handler' = [handler EXCEPT !["request"] =
                                   [pc |-> "load", op |-> @.op, payload |-> @.payload,
                                    reads |-> @.reads, since |-> s, until |-> u]]
                /\ UNCHANGED response
    /\ UNCHANGED <<db, clock, replayVars, fnVars>>

\* lines 264-273: read both series and call build_replay_report with them
ReplayReportLoad ==
    /\ handler["request"].pc = "load"
    /\ LET h == handler["request"]
       IN  /\ glucose' = [glucose EXCEPT ![1] = list_glucose(db, Some(h.since), Some(h.until))]
           /\ therapy_events' = [therapy_events EXCEPT ![1] =
                                     list_therapy(db, Some(h.since), Some(h.until))]
           /\ since' = [since EXCEPT ![1] = h.since]
           /\ until' = [until EXCEPT ![1] = h.until]
           /\ step_minutes' = [step_minutes EXCEPT ![1] = h.payload.stepMinutes]
    /\ pc[1] = "idle"
    /\ pc' = [pc EXCEPT ![1] = "begin"]
    /\ handler' = [handler EXCEPT !["request"].pc = "await", !["request"].reads = @ + 2]
    /\ UNCHANGED <<sorted_glucose, sorted_therapy, i, window_glucose, window_therapy,
                   horizon_errors, rule_counter, sim_calls, report, fnVars,
                   db, clock, response>>

\* line 267: the value build_replay_report returned is the response
ReplayReportReturn ==
    /\ handler["request"].pc = "await"
    /\ pc[1] = "done"
    /\ response' = [response EXCEPT !["request"] = Ok(report[1])]
    /\ handler' = [handler EXCEPT !["request"].pc = "done"]
    /\ UNCHANGED <<db, clock, replayVars, fnVars>>

replay_report ==
    ReplayReportValidate \/ ReplayReportLoad \/ Invocation(1) \/ ReplayReportReturn

\* the service was started, and seeded its database, at StartupTick; three
\* weeks later a client pushed a series of readings, the first at PushedTick
StartupTick == StartTick

PushedTick == StartTick + 21 * 1440

PushedReadings == 31

\* the glucose_points rows a sync push of the list g adds to the seeded table
PushedRows(g) ==
    { GlucosePointOrm(SeedReadings + k, g[k].ts + (PushedTick - g[1].ts),
                      g[k].valueMmol, g[k].source, g[k].quality) : k \in 1..Len(g) }

RequestClocks == {PushedTick + 5 * (PushedReadings - 1), PushedTick + 5 * PushedReadings}

SinceChoices == {None, Some(0), Some(PushedTick + 5), Some(PushedTick + 200)}

UntilChoices ==
    {None, Some(0), Some(PushedTick + 5), Some(PushedTick + 100), Some(PushedTick + 150)}

ReplayStepChoices == {5, 15}

Received(op, payload) == [pc |-> "received", op |-> op, payload |-> payload, reads |-> 0]

InitReplayApi ==
    /\ ReplayIdle
    /\ FnIdle
    /\ \E p \in Patterns :
          db = [ensure_seed_data(StartupTick) EXCEPT
                   !.glucose_points = @ \cup PushedRows(Series(p, PushedReadings))]
    /\ clock \in RequestClocks
    /\ \E s \in SinceChoices, u \in UntilChoices, sm \in ReplayStepChoices :
          handler = [t \in Threads |->
                        IF t = "request"
                        THEN Received("replay_report", ReplayReportRequest(s, u, sm))
                        ELSE [pc |-> "idle"]]
    /\ response = [t \in Threads |-> None]

SpecReplayApi == InitReplayApi /\ [][replay_report]_vars

(***************************************************************************)
(* repository.py: push_sync_payload, and main.py: POST /v1/sync/push.  A   *)
(* push is one transaction; pushes are served one after another.           *)
(***************************************************************************)
DictOfNoDedup(list, keys) == list

\* the values of the dict {keys[j]: list[j] for j ...} in iteration order: one
\* entry per distinct key, placed where the key first occurs, holding the
\* element of its last occurrence
DictOf(list, keys) ==
    LET firsts    == {j \in 1..Len(list) : \A m \in 1..(j - 1) : keys[m] # keys[j]}
        Nth(p)    == CHOOSE j \in firsts : Cardinality({m \in firsts : m < j}) = p - 1
        LastOf(j) == CHOOSE m \in j..Len(list) :
                         keys[m] = keys[j] /\ \A q \in (m + 1)..Len(list) : keys[q] # keys[j]
    IN  [p \in 1..Cardinality(firsts) |-> list[LastOf(Nth(p))]]

GlucoseKeys(g) == [j \in 1..Len(g) |-> <<g[j].ts, g[j].source>>]

TherapyKeys(e) == [j \in 1..Len(e) |-> e[j].id]

\* existing_by_key.get((point.ts, point.source)): the rows read back that
\* carry the key; the dict keeps the last of them
ExistingGlucose(rows, point) ==
    {r \in rows : r.ts = point.ts /\ r.source = point.source /\
                  \A q \in rows : (q.ts = r.ts /\ q.source = r.source) => q.id <= r.id}

\* lines 158-172: update the existing row in place, or add a new row
RECURSIVE UpsertGlucose(_, _, _)
UpsertGlucose(rows, existing_rows, points) ==
    IF points = <<>> THEN rows
    ELSE LET point    == Head(points)
             existing == ExistingGlucose(existing_rows, point)
             written  ==
                 IF existing = {}
                 THEN rows \cup {GlucosePointOrm(NextRowId(rows),
                                     point.ts, point.valueMmol, point.source, point.quality)}
                 ELSE {IF r \in existing
                       THEN [r EXCEPT !.value_mmol = point.valueMmol,
                                      !.quality = point.quality]
                       ELSE r : r \in rows}
         IN  UpsertGlucose(written, existing_rows, Tail(points))

ExistingTherapy(rows, event) ==
    {r \in rows : r.id = event.id /\ \A q \in rows : q.id = r.id => q.rowid <= r.rowid}

\* lines 179-195
RECURSIVE UpsertTherapy(_, _, _)
UpsertTherapy(rows, existing_rows, events) ==
    IF events = <<>> THEN rows
    ELSE LET event    == Head(events)
             existing == ExistingTherapy(existing_rows, event)
             written  ==
                 IF existing = {}
                 THEN rows \cup {TherapyEventOrm(NextRowId(rows),
                                     event.id, event.ts, event.type,
                                     json_dumps(event.payload))}
                 ELSE {IF r \in existing
                       THEN [r EXCEPT !.ts = event.ts, !.event_type = event.type,
                                      !.payload_json = json_dumps(event.payload)]
                       ELSE r : r \in rows}
         IN  UpsertTherapy(written, existing_rows, Tail(events))

\* max(x.ts for x in list), 0 for the empty list
MaxTs(list) ==
    IF list = <<>> THEN 0
    ELSE list[CHOOSE j \in 1..Len(list) : \A m \in 1..Len(list) : list[m].ts <= list[j].ts].ts

PushResult(accepted_glucose, accepted_therapy_events, next_since) ==
    [accepted_glucose |-> accepted_glucose,
     accepted_therapy_events |-> accepted_therapy_events, next_since |-> next_since]

\* returns the database after the commit and the PushResult
push_sync_payload(database, g, e) ==
    LET dedup_glucose == DictOf(g, GlucoseKeys(g))
        dedup_therapy == DictOf(e, TherapyKeys(e))
    IN  [db |-> [database EXCEPT
                    !.glucose_points = UpsertGlucose(@, @, dedup_glucose),
                    !.therapy_events = UpsertTherapy(@, @, dedup_therapy)],
         result |-> PushResult(Len(dedup_glucose), Len(dedup_therapy),
                               Max(Max(0, MaxTs(dedup_glucose)), MaxTs(dedup_therapy)))]

SyncPushRequest(g, e) == [glucose |-> g, therapyEvents |-> e]

SyncPushResponse(acceptedGlucose, acceptedTherapyEvents, nextSince) ==
    [acceptedGlucose |-> acceptedGlucose,
     acceptedTherapyEvents |-> acceptedTherapyEvents, nextSince |-> nextSince]

MaxPushes == 3

MaxGlucosePushed == 2

MaxTherapyPushed == 2

PushTs == StartupTick + 60

\* the readings a client pushes: one key twice with different values, and a
\* second source at the same timestamp
PushedPoints ==
    { GlucosePoint(PushTs, Tenths(62), "android"),
      [GlucosePoint(PushTs, Tenths(64), "android") EXCEPT !.quality = "STALE"],
      GlucosePoint(PushTs, Tenths(62), "cgm") }

\* the events a client pushes: one id with two timestamps
PushedEvents ==
    { [TherapyEvent("android-temp-1", PushTs + 1, "temp_target") EXCEPT
          !.payload = [k \in {"targetBottom"} |-> "5.0"]],
      TherapyEvent("android-temp-1", PushTs - 1, "carbs") }

ListsOf(S, maxLen) == UNION {[1..n -> S] : n \in 0..maxLen}

\* the handler sync_push, served from start to end
sync_push ==
    /\ handler["request"].op = "sync_push"
    /\ handler["request"].served < MaxPushes
    /\ \E g \in ListsOf(PushedPoints, MaxGlucosePushed),
          e \in ListsOf(PushedEvents, MaxTherapyPushed) :
          LET payload == SyncPushRequest(g, e)
              pushed  == push_sync_payload(db, payload.glucose, payload.therapyEvents)
          IN  /\ db' = pushed.db
              /\ response' = [response EXCEPT !["request"] =
                                  SyncPushResponse(pushed.result.accepted_glucose,
                                                   pushed.result.accepted_therapy_events,
                                                   pushed.result.next_since)]
              /\ handler' = [handler EXCEPT !["request"] =
                                 [pc |-> "done", op |-> "sync_push", payload |-> payload,
                                  served |-> @.served + 1]]
    /\ UNCHANGED <<clock, replayVars, fnVars>>

InitSync ==
    /\ ReplayIdle
    /\ FnIdle
    /\ db = ensure_seed_data(StartupTick)
    /\ clock = StartupTick
    /\ handler = [t \in Threads |->
                     IF t = "request"
                     THEN [pc |-> "idle", op |-> "sync_push", payload |-> None, served |-> 0]
                     ELSE [pc |-> "idle"]]
    /\ response = [t \in Threads |-> None]

SpecSync == InitSync /\ [][sync_push]_vars

(***************************************************************************)
(* Two POST /v1/sync/push requests served at the same time.  sync_push is  *)
(* a plain def, so each request runs on its own worker thread, with its    *)
(* own session: the SELECT of line 155 reads the committed rows, lines     *)
(* 158-172 change only the session, and db.commit() of line 197 writes the *)
(* session's rows and updates in one go.  The requests of this section     *)
(* carry no therapy events, so lines 174-195 are skipped.                  *)
(***************************************************************************)
Workers == {"worker-1", "worker-2"}

\* lines 153-156: the rows read back for the timestamps pushed
ReadExisting(w) ==
    /\ handler[w].pc = "received"
    /\ LET g             == handler[w].payload.glucose
           dedup_glucose == DictOf(g, GlucoseKeys(g))
           ts_values     == {dedup_glucose[j].ts : j \in 1..Len(dedup_glucose)}
       IN  handler' = [handler EXCEPT ![w] =
               [@ EXCEPT !.pc = "read",
                         !.dedup_glucose = dedup_glucose,
                         !.existing_rows = {r \in db.glucose_points : r.ts \in ts_values}]]
    /\ UNCHANGED <<db, clock, response, replayVars, fnVars>>

\* db.add(GlucosePointOrm(...)) for the points whose key was not read back
AddedPoints(existing_rows, points) ==
    SelectSeq(points, LAMBDA point : ExistingGlucose(existing_rows, point) = {})

\* existing.value_mmol = ..., existing.quality = ...: per row read back and
\* pushed again, its id, the values loaded and the values assigned
DirtyRows(existing_rows, points) ==
    { [id |-> r.id, loaded |-> r, value_mmol |-> points[j].valueMmol,
       quality |-> points[j].quality] :
        <<r, j>> \in {x \in existing_rows \X (1..Len(points)) :
                         x[1] \in ExistingGlucose(existing_rows, points[x[2]])} }

\* lines 158-172: the loop over dedup_glucose, which changes the session only
InsertOrUpdate(w) ==
    /\ handler[w].pc = "read"
    /\ handler' = [handler EXCEPT ![w] =
           [@ EXCEPT !.pc = "commit",
                     !.added = AddedPoints(handler[w].existing_rows,
                                           handler[w].dedup_glucose),
                     !.dirty = DirtyRows(handler[w].existing_rows,
                                         handler[w].dedup_glucose),
                     !.accepted_glucose = Len(handler[w].dedup_glucose)]]
    /\ UNCHANGED <<db, clock, response, replayVars, fnVars>>

\* the INSERTs of a flush, each row taking the next autoincrement id
RECURSIVE InsertGlucose(_, _)
InsertGlucose(rows, points) ==
    IF points = <<>> THEN rows
    ELSE InsertGlucose(
             rows \cup {GlucosePointOrm(NextRowId(rows), Head(points).ts,
                            Head(points).valueMmol, Head(points).source,
                            Head(points).quality)},
             Tail(points))

\* the UPDATEs of a flush: by primary key, setting the columns whose value
\* differs from the one loaded
UpdateGlucose(rows, dirty) ==
    { IF \E d \in dirty : d.id = r.id
      THEN LET d == CHOOSE x \in dirty : x.id = r.id
           IN  [r EXCEPT
                  !.value_mmol = IF d.value_mmol # d.loaded.value_mmol
                                 THEN d.value_mmol ELSE @,
                  !.quality = IF d.quality # d.loaded.quality THEN d.quality ELSE @]
      ELSE r : r \in rows }

\* line 197, db.commit(), and the return of the handler
Commit(w) ==
    /\ handler[w].pc = "commit"
    /\ db' = [db EXCEPT !.glucose_points =
                  InsertGlucose(UpdateGlucose(@, handler[w].dirty), handler[w].added)]
    /\ handler' = [handler EXCEPT ![w] = [@ EXCEPT !.pc = "done"]]
    /\ response' = [response EXCEPT ![w] =
           SyncPushResponse(handler[w].accepted_glucose, 0,
                            Max(0, MaxTs(handler[w].dedup_glucose)))]
    /\ UNCHANGED <<clock, replayVars, fnVars>>

sync_push_concurrent == \E w \in Workers : ReadExisting(w) \/ InsertOrUpdate(w) \/ Commit(w)

InitSyncConc ==
    /\ ReplayIdle
    /\ FnIdle
    /\ db = ensure_seed_data(StartupTick)
    /\ clock = StartupTick
    /\ handler \in [Workers ->
           { [pc |-> "received", op |-> "sync_push", payload |-> SyncPushRequest(g, <<>>),
              dedup_glucose |-> <<>>, existing_rows |-> {}, added |-> <<>>,
              dirty |-> {}, accepted_glucose |-> 0] :
                 g \in ListsOf(PushedPoints, MaxGlucosePushed) }]
    /\ response = [w \in Workers |-> None]

SpecSyncConc == InitSyncConc /\ [][sync_push_concurrent]_vars

(***************************************************************************)
(* repository.py: upsert_temp_target_action, and main.py:                  *)
(* POST /v1/actions/temp-target.  Requests are served one after another.   *)
(* A message is the sequence of the pieces of its text.                    *)
(***************************************************************************)
ActionOrm(id, status, message, idempotency_key, created_ts) ==
    [id |-> id, status |-> status, message |-> message,
     idempotency_key |-> idempotency_key, created_ts |-> created_ts]

ActionRecord(id, status, message, idempotency_key) ==
    [id |-> id, status |-> status, message |-> message,
     idempotency_key |-> idempotency_key]

ActionIds == {"action-1", "action-2"}

\* f"action-{action_id}"
ActionEventId(action_id) ==
    IF action_id = "action-1" THEN "action-action-1" ELSE "action-action-2"

\* f"temp target {target_mmol} mmol/L for {duration_minutes}m"
TempTargetMessage(target_mmol, duration_minutes) ==
    <<"temp target ", target_mmol, " mmol/L for ", duration_minutes, "m">>

\* str(x) of a float or an int, as the piece of text it is
Str(x) == <<x>>

\* db.merge(row): the row replaces the row of the same primary key, or is added
MergeTherapy(rows, id, ts, event_type, payload_json) ==
    IF \E r \in rows : r.id = id
    THEN {IF r.id = id THEN TherapyEventOrm(r.rowid, id, ts, event_type, payload_json)
          ELSE r : r \in rows}
    ELSE rows \cup {TherapyEventOrm(NextRowId(rows), id, ts, event_type, payload_json)}

ExistingActionById(rows, action_id, idempotency_key) ==
    {a \in rows : a.id = action_id}

\* select(ActionOrm).where(ActionOrm.idempotency_key == idempotency_key)
ExistingAction(rows, action_id, idempotency_key) ==
    {a \in rows : a.idempotency_key = idempotency_key}

\* returns the database after the call and the ActionRecord, or, when the
\* INSERT breaks the primary key or the unique index of actions, the error
\* with nothing stored
upsert_temp_target_action(database, action_id, idempotency_key, target_mmol, duration_minutes, now) ==
    LET existing == ExistingAction(database.actions, action_id, idempotency_key)
    IN  IF existing # {}
        THEN LET a == CHOOSE a \in existing : TRUE
             IN  [db |-> database,
                  record |-> ActionRecord(a.id, a.status, a.message, a.idempotency_key)]
        ELSE IF \E a \in database.actions :
                    a.id = action_id \/ a.idempotency_key = idempotency_key
        THEN [db |-> database, raised |-> "IntegrityError"]
        ELSE LET action == ActionOrm(action_id, "accepted",
                                     TempTargetMessage(target_mmol, duration_minutes),
                                     idempotency_key, now)
                 payload == [k \in {"targetBottom", "targetTop", "duration", "reason"} |->
                                IF k = "duration" THEN Str(duration_minutes)
                                ELSE IF k = "reason" THEN "copilot_auto"
                                ELSE Str(target_mmol)]
             IN  [db |-> [database EXCEPT
                             !.actions = @ \cup {action},
                             !.therapy_events =
                                 MergeTherapy(@, ActionEventId(action_id), now,
                                              "temp_target", json_dumps(payload))],
                  record |-> ActionRecord(action.id, action.status, action.message,
                                          action.idempotency_key)]

TempTargetRequest(id, targetMmol, durationMinutes, idempotencyKey) ==
    [id |-> id, targetMmol |-> targetMmol, durationMinutes |-> durationMinutes,
     idempotencyKey |-> idempotencyKey]

ActionResponse(id, status, message) == [id |-> id, status |-> status, message |-> message]

MaxActionRequests == 3

IdempotencyKeys == {"same-key", "other-key"}

TargetChoices == {Rat(5), Tenths(65)}

\* the handler create_temp_target, served from start to end; an exception
\* the handler does not catch is answered 500
create_temp_target ==
    /\ handler["request"].op = "create_temp_target"
    /\ handler["request"].served < MaxActionRequests
    /\ \E id \in ActionIds, key \in IdempotencyKeys, target \in TargetChoices :
          LET payload == TempTargetRequest(id, target, 60, key)
              out     == upsert_temp_target_action(db, payload.id, payload.idempotencyKey,
                             payload.targetMmol, payload.durationMinutes, clock)
          IN  /\ db' = out.db
              /\ response' = [response EXCEPT !["request"] =
                     IF "raised" \in DOMAIN out
                     THEN HTTPException(500, "Internal Server Error")
                     ELSE LET record    == out.record
                              duplicate == record.id # payload.id
                          IN  ActionResponse(record.id, record.status,
                                  IF duplicate THEN <<"duplicate_suppressed">>
                                  ELSE record.message)]
              /\ handler' = [handler EXCEPT !["request"] =
                                 [pc |-> "done", op |-> "create_temp_target",
                                  payload |-> payload, served |-> @.served + 1]]
    /\ clock' = clock + 1
    /\ UNCHANGED <<replayVars, fnVars>>

InitActions ==
    /\ ReplayIdle
    /\ FnIdle
    /\ db = ensure_seed_data(StartupTick)
    /\ clock = StartupTick + 1
    /\ handler = [t \in Threads |->
                     IF t = "request"
                     THEN [pc |-> "idle", op |-> "create_temp_target", payload |-> None,
                           served |-> 0]
                     ELSE [pc |-> "idle"]]
    /\ response = [t \in Threads |-> None]

SpecActions == InitActions /\ [][create_temp_target]_vars

\* ---------------------------------------------------------------------
\* daily analysis: POST /v1/analysis/daily on a request thread and the
\* scheduled _daily_job on the scheduler thread (main.py, repository.py)
\* ---------------------------------------------------------------------

AnalysisReportOrm(id, run_ts, report_date, source, status, error_message) ==
    [id |-> id, run_ts |-> run_ts, report_date |-> report_date, source |-> source,
     status |-> status, error_message |-> error_message]

\* db.add(AnalysisReportOrm(run_ts=now, ...)); db.commit()
add_analysis_report(database, report_date, source, status, error_message, now) ==
    [database EXCEPT !.analysis_reports =
        @ \cup {AnalysisReportOrm(NextRowId(@), now, report_date, source, status,
                                  error_message)}]

\* f"job.{job_id}.{field}" for the job and the fields used here
_job_key(job_id, field) ==
    CASE job_id = "daily-analysis" /\ field = "last_run_ts" -> "job.daily-analysis.last_run_ts"
      [] job_id = "daily-analysis" /\ field = "last_status" -> "job.daily-analysis.last_status"
      [] job_id = "daily-analysis" /\ field = "last_message" -> "job.daily-analysis.last_message"
      [] job_id = "daily-analysis" /\ field = "last_success_ts" -> "job.daily-analysis.last_success_ts"

\* db.merge(KvOrm(key=key, value=value))
_set_kv(kv, key, value) ==
    [k \in DOMAIN kv \cup {key} |-> IF k = key THEN value ELSE kv[k]]

\* status.upper() for the statuses the callers pass
Upper(status) == status

\* the session of record_job_status; now is the clock value the caller read
\* before the session was opened
record_job_status(database, job_id, status, message, now) ==
    LET kv1 == _set_kv(database.kv_store, _job_key(job_id, "last_run_ts"), Str(now))
        kv2 == _set_kv(kv1, _job_key(job_id, "last_status"), status)
        kv3 == _set_kv(kv2, _job_key(job_id, "last_message"), message)
        kv4 == IF Upper(status) = "SUCCESS"
               THEN _set_kv(kv3, _job_key(job_id, "last_success_ts"), Str(now))
               ELSE kv3
    IN  [database EXCEPT !.kv_store = kv4]

_get_kv_text(kv, key) == IF key \in DOMAIN kv THEN Some(kv[key]) ELSE None

\* int(raw) of a value written by str(now)
_get_kv_int(kv, key) == IF key \in DOMAIN kv THEN Some(kv[key][1]) ELSE None

JobStatusSnapshot(job_id, last_run_ts, last_success_ts, last_status, last_message) ==
    [job_id |-> job_id, last_run_ts |-> last_run_ts, last_success_ts |-> last_success_ts,
     last_status |-> last_status, last_message |-> last_message]

get_job_status(database, job_id) ==
    JobStatusSnapshot(job_id,
        _get_kv_int(database.kv_store, _job_key(job_id, "last_run_ts")),
        _get_kv_int(database.kv_store, _job_key(job_id, "last_success_ts")),
        _get_kv_text(database.kv_store, _job_key(job_id, "last_status")),
        _get_kv_text(database.kv_store, _job_key(job_id, "last_message")))

MaxRuns == 2
MaxClockTicks == 2

\* "manual" for the handler of POST /v1/analysis/daily, "scheduler" for _daily_job
SourceOf(t) == IF t = "request" THEN "manual" ELSE "scheduler"

\* the message each caller hands to record_job_status
JobMessage(t, status) ==
    IF t = "request"
    THEN IF status = "SUCCESS"
         THEN <<"manual=true, anomalies=", 1, ", recommendations=", 1>>
         ELSE <<"manual=true, error=", "APIConnectionError">>
    ELSE IF status = "SUCCESS"
         THEN <<"anomalies=", 1, ", recommendations=", 1>>
         ELSE <<"APIConnectionError">>

DailyAnalysisResponse(summary, anomalies, recommendations) ==
    [summary |-> summary, anomalies |-> anomalies, recommendations |-> recommendations]

\* _run_daily_analysis and, when run_daily_insight raises, the except branch
\* up to add_analysis_report: one report is stored, SUCCESS or FAILED
RunDailyAnalysis(t) ==
    /\ handler[t].pc = "idle"
    /\ handler[t].served < MaxRuns
    /\ \E raised \in BOOLEAN :
          LET status == IF raised THEN "FAILED" ELSE "SUCCESS"
          IN  /\ db' = add_analysis_report(db, "2026-02-27", SourceOf(t), status,
                           IF raised THEN Some("APIConnectionError") ELSE None, clock)
              /\ handler' = [handler EXCEPT ![t] =
                     [@ EXCEPT !.pc = "record_job_status", !.status = status,
                               !.report = NextRowId(db.analysis_reports)]]
    /\ UNCHANGED <<clock, response, replayVars, fnVars>>

\* record_job_status up to the session: now = int(time.time() * 1000)
ReadClock(t) ==
    /\ handler[t].pc = "record_job_status"
    /\ handler' = [handler EXCEPT ![t] = [@ EXCEPT !.pc = "session", !.now = clock]]
    /\ UNCHANGED <<db, clock, response, replayVars, fnVars>>

\* the session of record_job_status and the caller's return
CommitStatus(t) ==
    /\ handler[t].pc = "session"
    /\ db' = record_job_status(db, "daily-analysis", handler[t].status,
                 JobMessage(t, handler[t].status), handler[t].now)
    /\ handler' = [handler EXCEPT ![t] =
           [@ EXCEPT !.pc = "idle", !.served = @ + 1]]
    /\ response' = [response EXCEPT ![t] =
           IF t = "scheduler" THEN None
           ELSE IF handler[t].status = "SUCCESS"
           THEN Ok(DailyAnalysisResponse("fallback summary", 1, 1))
           ELSE HTTPException(500, "daily_analysis_failed")]
    /\ UNCHANGED <<clock, replayVars, fnVars>>

\* time passes
Tick ==
    /\ clock < StartupTick + 1 + MaxClockTicks
    /\ clock' = clock + 1
    /\ UNCHANGED <<db, handler, response, replayVars, fnVars>>

daily_analysis ==
    RunDailyAnalysis("request") \/ ReadClock("request") \/ CommitStatus("request")

_daily_job ==
    RunDailyAnalysis("scheduler") \/ ReadClock("scheduler") \/ CommitStatus("scheduler")

InitJobs ==
    /\ ReplayIdle
    /\ FnIdle
    /\ db = ensure_seed_data(StartupTick)
    /\ clock = StartupTick + 1
    /\ handler = [t \in Threads |->
                     [pc |-> "idle", op |-> SourceOf(t), status |-> "", now |-> 0,
                      report |-> 0, served |-> 0]]
    /\ response = [t \in Threads |-> None]

SpecJobs == InitJobs /\ [][daily_analysis \/ _daily_job \/ Tick]_vars

\* C11: evaluate_post_hypo_rebound answers TRIGGERED or NO_MATCH, never
\* BLOCKED, on every list; so no replay run ever counts a BLOCKED decision
\* and the single ruleStats row of every report has blocked = 0.
C11_NeverBlocked ==
    /\ EvaluateReturned => fn_result.value.state \in {"TRIGGERED", "NO_MATCH"}
    /\ \A s \in Slots :
          /\ rule_counter[s]["BLOCKED"] = 0
          /\ Returned(s) => /\ Len(report[s].ruleStats) = 1
                            /\ report[s].ruleStats[1].blocked = 0

C11_Witness ==
    /\ Returned(1)
    /\ sim_calls[1].rule > 1
    /\ report[1].ruleStats[1].triggered = sim_calls[1].rule
    /\ report[1].ruleStats[1].blocked = 0

\* C12: a replay-report request that supplies since and until with
\* since >= until (0 included) is answered 400 invalid_range, and for it
\* storage is never read and build_replay_report never invoked.
C12_InvalidRangeRejected ==
    LET h == handler["request"]
    IN  (/\ h.pc # "idle"
         /\ h.op = "replay_report"
         /\ h.payload.since # None
         /\ h.payload.until # None
         /\ h.payload.since.some >= h.payload.until.some)
            => /\ h.pc \in {"received", "done"}
               /\ h.reads = 0
               /\ pc[1] = "idle"
               /\ h.pc = "done" => response["request"] = HTTPException(400, "invalid_range")

(***************************************************************************)
(* Properties of POST /v1/sync/push (SpecSync)                             *)
(***************************************************************************)
Pushed == handler["request"].op = "sync_push" /\ handler["request"].pc = "done"

OneRowPerKey ==
    /\ \A r, q \in db.glucose_points : (r.ts = q.ts /\ r.source = q.source) => r = q
    /\ \A r, q \in db.therapy_events : r.id = q.id => r = q

\* the timestamps of the entries of a pushed payload
PayloadTs(payload) ==
    {payload.glucose[j].ts : j \in 1..Len(payload.glucose)}
        \cup {payload.therapyEvents[j].ts : j \in 1..Len(payload.therapyEvents)}

\* the timestamps of the entries a push keeps: for each (ts, source) and each
\* id, the entry that comes last in the payload
KeptTs(payload) ==
    {payload.glucose[j].ts : j \in 1..Len(payload.glucose)}
        \cup {payload.therapyEvents[j].ts :
                 j \in {m \in 1..Len(payload.therapyEvents) :
                           \A q \in (m + 1)..Len(payload.therapyEvents) :
                               payload.therapyEvents[q].id # payload.therapyEvents[m].id}}

IsLargest(x, S) == x \in S /\ \A y \in S : y <= x

AcceptedCountsKeys ==
    Pushed =>
        LET payload == handler["request"].payload
        IN  /\ response["request"].acceptedGlucose =
                   Cardinality({<<payload.glucose[j].ts, payload.glucose[j].source>> :
                                   j \in 1..Len(payload.glucose)})
            /\ response["request"].acceptedTherapyEvents =
                   Cardinality({payload.therapyEvents[j].id :
                                   j \in 1..Len(payload.therapyEvents)})

\* a push of the payload the previous push carried changes no table
RepushChangesNothing ==
    (/\ Pushed
     /\ handler'["request"].served = handler["request"].served + 1
     /\ handler'["request"].payload = handler["request"].payload) => db' = db

\* C13 as stated: pushes served one after another keep at most one glucose
\* row per (ts, source) and one therapy event per id; pushing the same
\* payload again changes nothing; acceptedGlucose and acceptedTherapyEvents
\* count the distinct keys of the payload; nextSince is the largest
\* timestamp in the payload.
C13_PushUpserts ==
    /\ [](/\ OneRowPerKey
          /\ AcceptedCountsKeys
          /\ (Pushed /\ PayloadTs(handler["request"].payload) # {})
                 => IsLargest(response["request"].nextSince,
                              PayloadTs(handler["request"].payload)))
    /\ [][RepushChangesNothing]_vars

\* C13 amended: as stated, except that nextSince is the largest timestamp
\* among the entries the push keeps (for each (ts, source) and each id the
\* entry that comes last in the payload), and 0 for an empty payload.
C13_PushUpsertsKept ==
    /\ [](/\ OneRowPerKey
          /\ AcceptedCountsKeys
          /\ Pushed =>
                 IF KeptTs(handler["request"].payload) = {}
                 THEN response["request"].nextSince = 0
                 ELSE IsLargest(response["request"].nextSince,
                                KeptTs(handler["request"].payload)))
    /\ [][RepushChangesNothing]_vars

\* the second push of a payload that names one (ts, source) twice with
\* different values and one id twice: one row each, the later entry stored
C13_Witness ==
    /\ Pushed
    /\ handler["request"].served = 2
    /\ Len(handler["request"].payload.glucose) = 2
    /\ Len(handler["request"].payload.therapyEvents) = 2
    /\ response["request"].acceptedGlucose = 1
    /\ response["request"].acceptedTherapyEvents = 1
    /\ handler["request"].payload.glucose[1].valueMmol # handler["request"].payload.glucose[2].valueMmol
    /\ Cardinality({r \in db.glucose_points : r.ts = PushTs}) = 1
    /\ \A r \in db.glucose_points :
           r.ts = PushTs => r.value_mmol = handler["request"].payload.glucose[2].valueMmol
    /\ Cardinality({r \in db.therapy_events : r.id = "android-temp-1"}) = 1
    /\ Cardinality(db.glucose_points) = SeedReadings + 1

(***************************************************************************)
(* Properties of POST /v1/actions/temp-target (SpecActions)                *)
(***************************************************************************)
\* the step serves a temp-target request whose idempotencyKey an action
\* stored by an earlier request carries
ServesUsedKey ==
    /\ handler'["request"].served = handler["request"].served + 1
    /\ \E a \in db.actions : a.idempotency_key = handler'["request"].payload.idempotencyKey

OneActionPerKey ==
    \A a, b \in db.actions : a.idempotency_key = b.idempotency_key => a = b

\* C14 as stated: a temp-target request whose idempotencyKey was used
\* before is answered with the id of the stored action and the message
\* duplicate_suppressed, whatever id it carries, and stores nothing (no
\* action, no therapy event); there is at most one action per key.
C14_DuplicateSuppressed ==
    /\ []OneActionPerKey
    /\ [][ServesUsedKey =>
              /\ db' = db
              /\ \E a \in db.actions :
                     /\ a.idempotency_key = handler'["request"].payload.idempotencyKey
                     /\ response'["request"] =
                            ActionResponse(a.id, a.status, <<"duplicate_suppressed">>)]_vars

\* C14 amended: such a request is answered with the id of the stored action
\* and stores nothing; the message is duplicate_suppressed when the id it
\* carries differs from the stored action's id, and the stored action's own
\* message when it carries the same id; there is at most one action per key.
C14_DuplicateSuppressedForNewId ==
    /\ []OneActionPerKey
    /\ [][ServesUsedKey =>
              /\ db' = db
              /\ \E a \in db.actions :
                     /\ a.idempotency_key = handler'["request"].payload.idempotencyKey
                     /\ response'["request"] =
                            ActionResponse(a.id, a.status,
                                IF a.id # handler'["request"].payload.id
                                THEN <<"duplicate_suppressed">> ELSE a.message)]_vars

\* a second request with the key of the first, another id and another target
C14_Witness ==
    /\ handler["request"].op = "create_temp_target"
    /\ handler["request"].served = 2
    /\ Cardinality(db.actions) = 1
    /\ \A a \in db.actions :
           /\ a.idempotency_key = handler["request"].payload.idempotencyKey
           /\ a.id # handler["request"].payload.id
           /\ a.message # TempTargetMessage(handler["request"].payload.targetMmol, 60)
           /\ response["request"] = ActionResponse(a.id, "accepted", <<"duplicate_suppressed">>)
    /\ Cardinality(db.therapy_events) = 2

\* ---------------------------------------------------------------------
\* Properties of the daily-analysis job status
\* ---------------------------------------------------------------------

DailyStatus == get_job_status(db, "daily-analysis")

\* lastSuccessTs is unset or <= lastRunTs
SuccessNotAfterRun ==
    \/ DailyStatus.last_success_ts = None
    \/ /\ DailyStatus.last_run_ts # None
       /\ DailyStatus.last_success_ts.some <= DailyStatus.last_run_ts.some

\* thread t finishes a run in this step
RunEnds(t) == handler[t].pc = "session" /\ handler'[t].pc = "idle"

\* the reports stored so far are one per run started, and the report of a
\* run carries the status the run records
OneReportPerRun ==
    /\ Cardinality(db.analysis_reports) =
          handler["request"].served + handler["scheduler"].served
          + Cardinality({t \in Threads : handler[t].pc # "idle"})
    /\ \A t \in Threads : handler[t].pc # "idle" =>
          \E r \in db.analysis_reports :
              /\ r.id = handler[t].report
              /\ r.status = handler[t].status
              /\ r.source = SourceOf(t)

\* C15: after every daily-analysis run, manual or scheduled, the job status
\* has lastRunTs set and lastStatus equal to the outcome of that run;
\* lastSuccessTs is changed only by a SUCCESS run; in every reachable state
\* lastSuccessTs is unset or <= lastRunTs; exactly one analysis report is
\* stored per run, with the run's status.
C15_JobStatusTracksRuns ==
    /\ []SuccessNotAfterRun
    /\ []OneReportPerRun
    /\ [][\A t \in Threads :
             /\ RunEnds(t) =>
                   /\ get_job_status(db', "daily-analysis").last_run_ts # None
                   /\ get_job_status(db', "daily-analysis").last_status
                         = Some(handler[t].status)
             /\ get_job_status(db', "daily-analysis").last_success_ts
                   # DailyStatus.last_success_ts
                => \E u \in Threads : RunEnds(u) /\ handler[u].status = "SUCCESS"]_vars

\* ---------------------------------------------------------------------
\* Properties of predict on reordered input
\* ---------------------------------------------------------------------

MaxPermLen == 4

\* the rearrangements of the positions 1..n
IndexPermutations(n) ==
    {q \in [1..n -> 1..n] : \A a, b \in 1..n : q[a] = q[b] => a = b}

Permuted(s, q) == [k \in 1..Len(s) |-> s[q[k]]]

\* readings of s that share a timestamp come in the same relative order in
\* Permuted(s, q)
KeepsOrderOfTies(s, q) ==
    \A a, b \in 1..Len(s) : (a < b /\ s[q[a]].ts = s[q[b]].ts) => q[a] < q[b]

PredictCalled ==
    /\ fn_pc = "returned"
    /\ fn_name = "predict"
    /\ Len(fn_result.arg) <= MaxPermLen

\* C16 as stated: predict returns the same forecasts for any two input
\* sequences that are permutations of each other, readings that share a
\* timestamp included.
C16_PermutationInvariant ==
    PredictCalled =>
        \A q \in IndexPermutations(Len(fn_result.arg)) :
            predict(Permuted(fn_result.arg, q)) = fn_result.value

\* C16 amended: predict returns the same forecasts for any two input
\* sequences that are permutations of each other and list the readings that
\* share a timestamp in the same relative order.
C16_PermutationInvariantUpToTies ==
    PredictCalled =>
        \A q \in IndexPermutations(Len(fn_result.arg)) :
            KeepsOrderOfTies(fn_result.arg, q) =>
                predict(Permuted(fn_result.arg, q)) = fn_result.value

\* predict was called on a list with two readings of one timestamp and
\* different values, and some rearrangement of it that keeps those two in
\* order is not sorted by timestamp
C16_Witness ==
    /\ PredictCalled
    /\ Len(fn_result.arg) >= 3
    /\ \E a, b \in 1..Len(fn_result.arg) :
          /\ a < b
          /\ fn_result.arg[a].ts = fn_result.arg[b].ts
          /\ fn_result.arg[a].valueMmol # fn_result.arg[b].valueMmol
    /\ \E q \in IndexPermutations(Len(fn_result.arg)) :
          /\ KeepsOrderOfTies(fn_result.arg, q)
          /\ \E k \in 1..(Len(fn_result.arg) - 1) :
                Permuted(fn_result.arg, q)[k].ts > Permuted(fn_result.arg, q)[k + 1].ts

\* ---------------------------------------------------------------------
\* Properties of evaluate_post_hypo_rebound: the decision table
\* ---------------------------------------------------------------------

\* the positions of the readings with value <= 3.0
HypoPositions(g) == {k \in 1..Len(g) : RLeq(g[k].valueMmol, Tenths(30))}

\* the timestamp of the most recent reading with value <= 3.0
LastHypoTs(g) ==
    CHOOSE t \in {g[k].ts : k \in HypoPositions(g)} :
        \A k \in HypoPositions(g) : g[k].ts <= t

\* the positions of the readings later than the most recent hypo reading
PostHypoPositions(g) == {k \in 1..Len(g) : g[k].ts > LastHypoTs(g)}

\* position j comes before position k in time order (input order among
\* readings of one timestamp)
EarlierThan(g, j, k) == g[j].ts < g[k].ts \/ (g[j].ts = g[k].ts /\ j < k)

\* the m-th of the readings after the most recent hypo reading, in time order
PostHypoReading(g, m) ==
    g[CHOOSE k \in PostHypoPositions(g) :
          Cardinality({j \in PostHypoPositions(g) : EarlierThan(g, j, k)}) = m - 1]

\* p1 - p0 > 0.2 and p2 - p1 > 0.2
ReboundOf(p0, p1, p2) ==
    /\ RLess(Tenths(2), RSub(p1.valueMmol, p0.valueMmol))
    /\ RLess(Tenths(2), RSub(p2.valueMmol, p1.valueMmol))

\* the reason of the first check that fails, "" when none does
FirstFailingCheck(g) ==
    IF Len(g) < 4 THEN "insufficient_points"
    ELSE IF HypoPositions(g) = {} THEN "no_hypo"
    ELSE IF Cardinality(PostHypoPositions(g)) < 3 THEN "insufficient_post_hypo_points"
    ELSE IF ~ReboundOf(PostHypoReading(g, 1), PostHypoReading(g, 2), PostHypoReading(g, 3))
    THEN "no_rebound"
    ELSE ""

\* C17: evaluate_post_hypo_rebound answers TRIGGERED if and only if there
\* are at least 4 readings, at least one reading <= 3.0, at least 3 readings
\* later than the most recent such reading, and the first three of those in
\* time order rise by more than 0.2 twice; otherwise it answers NO_MATCH with
\* exactly one reason, that of the first failing check in the order
\* insufficient_points, no_hypo, insufficient_post_hypo_points, no_rebound;
\* an action proposal is present exactly when the state is TRIGGERED.
C17_DecisionTable ==
    EvaluateReturned =>
        LET failing == FirstFailingCheck(fn_result.arg)
            d       == fn_result.value
        IN  /\ d.state = "TRIGGERED" <=> failing = ""
            /\ d.state # "TRIGGERED" => (d.state = "NO_MATCH" /\ d.reasons = <<failing>>)
            /\ d.actionProposal # None <=> d.state = "TRIGGERED"

\* the rule triggered on a list in which two of the readings after the hypo
\* share a timestamp
C17_Witness ==
    /\ EvaluateReturned
    /\ fn_result.value.state = "TRIGGERED"
    /\ fn_result.value.actionProposal # None
    /\ \E a, b \in PostHypoPositions(fn_result.arg) :
          a # b /\ fn_result.arg[a].ts = fn_result.arg[b].ts

\* ---------------------------------------------------------------------
\* Properties of the simulation loop of build_replay_report
\* ---------------------------------------------------------------------

\* max(1, stepMinutes // 5)
ClaimedStride == Max(1, step_minutes[1] \div 5)

\* ceil((n - 24) / stride)
ClaimedSteps == (Len(sorted_glucose[1]) - 24 + ClaimedStride - 1) \div ClaimedStride

CounterSum == rule_counter[1].TRIGGERED + rule_counter[1].BLOCKED + rule_counter[1].NO_MATCH

\* the k-th step of the loop is the one at index 24 + (k - 1) * stride, which
\* is below n, and k rule evaluations have been made after it
LoopVisits ==
    (pc[1] = "loop" \/ (pc[1] = "done" /\ Len(sorted_glucose[1]) >= 30)) =>
        LET k == sim_calls[1].rule
        IN  /\ Len(sorted_glucose[1]) >= 30
            /\ i[1] = 24 + k * ClaimedStride
            /\ sim_calls[1].predict = k
            /\ CounterSum = k
            /\ k > 0 =>
                  /\ i[1] - ClaimedStride < Len(sorted_glucose[1])
                  /\ window_glucose[1][Len(window_glucose[1])]
                        = sorted_glucose[1][i[1] - ClaimedStride + 1]

\* C18: with n >= 30 filtered readings the simulation visits exactly the
\* indices 24, 24 + stride, 24 + 2 * stride, ... below n, with
\* stride = max(1, stepMinutes // 5), evaluates the rule once per visited
\* index, and the ruleStats row has
\* triggered + blocked + noMatch = ceil((n - 24) / stride) >= 1.
C18_LoopIndices ==
    /\ LoopVisits
    /\ (pc[1] = "done" /\ Len(sorted_glucose[1]) >= 30) =>
          /\ i[1] >= Len(sorted_glucose[1])
          /\ sim_calls[1].rule = ClaimedSteps
          /\ Len(report[1].ruleStats) = 1
          /\ report[1].ruleStats[1].triggered + report[1].ruleStats[1].blocked
                + report[1].ruleStats[1].noMatch = ClaimedSteps
          /\ ClaimedSteps >= 1

\* a finished replay of 35 readings with stepMinutes = 12: stride 2, the six
\* indices 24, 26, ..., 34
C18_Witness ==
    /\ pc[1] = "done"
    /\ Len(sorted_glucose[1]) = 35
    /\ step_minutes[1] = 12
    /\ sim_calls[1].rule = 6
    /\ i[1] = 36
    /\ report[1].ruleStats[1].noMatch + report[1].ruleStats[1].triggered = 6

\* ---------------------------------------------------------------------
\* Properties of the scoring of forecasts in build_replay_report
\* ---------------------------------------------------------------------

\* 5 minutes for horizons <= 10, 15 minutes for longer ones
ClaimedTolerance(horizon) == IF horizon <= 10 THEN 5 ELSE 15

\* the positions of the filtered readings within the tolerance of target T
Within(T, horizon) ==
    {k \in 1..Len(sorted_glucose[1]) :
        Abs(sorted_glucose[1][k].ts - T) <= ClaimedTolerance(horizon)}

\* the positions of the filtered readings of minimum |ts - T|
Nearest(T) ==
    {k \in 1..Len(sorted_glucose[1]) :
        \A j \in 1..Len(sorted_glucose[1]) :
            Abs(sorted_glucose[1][k].ts - T) <= Abs(sorted_glucose[1][j].ts - T)}

\* the first of them in timestamp-sorted order
FirstNearest(T) == CHOOSE k \in Nearest(T) : \A j \in Nearest(T) : k <= j

SamplesBefore(h) == IF h \in DOMAIN horizon_errors[1] THEN horizon_errors[1][h] ELSE <<>>

SamplesAfter(h) == IF h \in DOMAIN horizon_errors'[1] THEN horizon_errors'[1][h] ELSE <<>>

\* this step is one iteration of the simulation loop
LoopStep == pc[1] = "loop" /\ sim_calls'[1].rule = sim_calls[1].rule + 1

\* the forecast fc of this iteration adds one sample, taken from the first
\* nearest reading, when a reading is within the tolerance, and none otherwise
ScoredWhenWithin(fc) ==
    IF Within(fc.ts, fc.horizon) = {}
    THEN SamplesAfter(fc.horizon) = SamplesBefore(fc.horizon)
    ELSE LET actual == sorted_glucose[1][FirstNearest(fc.ts)]
         IN  /\ Len(SamplesAfter(fc.horizon)) = Len(SamplesBefore(fc.horizon)) + 1
             /\ SubSeq(SamplesAfter(fc.horizon), 1, Len(SamplesBefore(fc.horizon)))
                   = SamplesBefore(fc.horizon)
             /\ SamplesAfter(fc.horizon)[Len(SamplesAfter(fc.horizon))][4] = actual.ts
             /\ SamplesAfter(fc.horizon)[Len(SamplesAfter(fc.horizon))][1]
                   = RAbs(RSub(actual.valueMmol, fc.valueMmol))

\* C19: a forecast with target timestamp T is scored exactly when some
\* filtered reading has |ts - T| <= tolerance, 5 minutes for horizons <= 10
\* and 15 minutes for longer ones, the bound included; the reading used is
\* one of minimum |ts - T| over all filtered readings, the first of them in
\* timestamp-sorted order; otherwise the forecast adds no error sample.
C19_ScoredWithinTolerance ==
    [][LoopStep =>
          LET forecasts == predict(window_glucose'[1])
          IN  /\ Len(forecasts) = 2
              /\ forecasts[1].horizon # forecasts[2].horizon
              /\ \A n \in 1..2 : ScoredWhenWithin(forecasts[n])
              /\ DOMAIN horizon_errors'[1] \subseteq
                    (DOMAIN horizon_errors[1]) \cup {forecasts[1].horizon, forecasts[2].horizon}]_vars

\* the last iteration ran at a reading followed by a gap of 10 minutes: its
\* 5-minute forecast has two nearest readings, both exactly at the tolerance,
\* and was scored against the first of them; its 60-minute forecast has no
\* reading within 15 minutes and was not scored
C19_Witness ==
    /\ pc[1] = "loop"
    /\ sim_calls[1].rule >= 2
    /\ LET cur == window_glucose[1][Len(window_glucose[1])]
       IN  /\ Cardinality(Nearest(cur.ts + 5)) >= 2
           /\ Within(cur.ts + 5, 5) = Nearest(cur.ts + 5)
           /\ SamplesBefore(5)[Len(SamplesBefore(5))][4] = cur.ts
           /\ Within(cur.ts + 60, 60) = {}
           /\ Len(SamplesBefore(60)) < Len(SamplesBefore(5))

\* ---------------------------------------------------------------------
\* Properties of forecastStats
\* ---------------------------------------------------------------------

\* the 0-based indices the simulation visits
VisitedIndices ==
    IF Len(sorted_glucose[1]) < 30 THEN {}
    ELSE {v \in 24..(Len(sorted_glucose[1]) - 1) : (v - 24) % ClaimedStride = 0}

\* the number of forecasts of horizon h that have a reading within tolerance
MatchedForecasts(h) ==
    Cardinality({v \in VisitedIndices : Within(sorted_glucose[1][v + 1].ts + h, h) # {}})

\* C20: forecastStats lists each horizon at most once, in strictly
\* ascending horizon order, contains a horizon exactly when at least one
\* forecast of that horizon was matched, and its sampleCount is the number of
\* matched forecasts of that horizon, never more than the number of
\* simulation steps.
C20_ForecastStatsRows ==
    pc[1] = "done" =>
        LET fs == report[1].forecastStats
        IN  /\ \A a, b \in 1..Len(fs) : a < b => fs[a].horizon < fs[b].horizon
            /\ \A h \in {5, 60} :
                   (\E a \in 1..Len(fs) : fs[a].horizon = h) <=> MatchedForecasts(h) > 0
            /\ \A a \in 1..Len(fs) :
                   /\ fs[a].horizon \in {5, 60}
                   /\ fs[a].sampleCount = MatchedForecasts(fs[a].horizon)
                   /\ fs[a].sampleCount <= sim_calls[1].rule
                   /\ fs[a].sampleCount <= Cardinality(VisitedIndices)

\* a finished replay whose 60-minute forecasts were matched at some steps
\* and not at others
C20_Witness ==
    /\ pc[1] = "done"
    /\ Len(report[1].forecastStats) = 2
    /\ report[1].forecastStats[1].horizon = 5
    /\ report[1].forecastStats[1].sampleCount = sim_calls[1].rule
    /\ report[1].forecastStats[2].horizon = 60
    /\ report[1].forecastStats[2].sampleCount > 1
    /\ report[1].forecastStats[2].sampleCount < sim_calls[1].rule

\* ---------------------------------------------------------------------
\* Properties of dayTypeStats
\* ---------------------------------------------------------------------

\* the guard did not fire and the report was returned
Simulated30 == pc[1] = "done" /\ Len(sorted_glucose[1]) >= 30

\* Saturday or Sunday, UTC: 1 January 1970 was a Thursday, so the days
\* 2, 3, 9, 10, ... of the epoch are the weekend days
IsWeekend(ts) == (ts \div 1440) % 7 \in {2, 3}

\* the sampleCount of horizon h in a forecastStats list, 0 when it has no row
CountIn(stats, h) ==
    IF \E a \in 1..Len(stats) : stats[a].horizon = h
    THEN stats[CHOOSE a \in 1..Len(stats) : stats[a].horizon = h].sampleCount
    ELSE 0

\* the number of samples of horizon h whose actual reading is on a weekend
WeekendSamples(h) ==
    Cardinality({k \in 1..Len(SamplesBefore(h)) : IsWeekend(SamplesBefore(h)[k][4])})

\* C21: whenever the insufficient-data guard does not fire, dayTypeStats has
\* exactly two entries, WEEKDAY then WEEKEND, either of which may have an
\* empty forecastStats list; they partition the samples by the UTC day of
\* week of the actual reading (Saturday and Sunday are WEEKEND), and for
\* every horizon the two sampleCounts sum to the horizon's overall sampleCount.
C21_DayTypePartition ==
    Simulated30 =>
        LET dts == report[1].dayTypeStats
        IN  /\ Len(dts) = 2
            /\ dts[1].dayType = "WEEKDAY"
            /\ dts[2].dayType = "WEEKEND"
            /\ \A d \in 1..2 : \A a \in 1..Len(dts[d].forecastStats) :
                   /\ dts[d].forecastStats[a].horizon \in {5, 60}
                   /\ dts[d].forecastStats[a].sampleCount > 0
            /\ \A h \in {5, 60} :
                   /\ CountIn(dts[2].forecastStats, h) = WeekendSamples(h)
                   /\ CountIn(dts[1].forecastStats, h)
                         = Len(SamplesBefore(h)) - WeekendSamples(h)
                   /\ CountIn(dts[1].forecastStats, h) + CountIn(dts[2].forecastStats, h)
                         = CountIn(report[1].forecastStats, h)

\* a replay that ran from Sunday evening into Monday: both entries have a
\* row for horizon 5, and only WEEKDAY has one for horizon 60
C21_Witness ==
    /\ Simulated30
    /\ CountIn(report[1].dayTypeStats[1].forecastStats, 5) > 0
    /\ CountIn(report[1].dayTypeStats[2].forecastStats, 5) > 0
    /\ CountIn(report[1].dayTypeStats[1].forecastStats, 60) > 0
    /\ CountIn(report[1].dayTypeStats[2].forecastStats, 60) = 0

\* ---------------------------------------------------------------------
\* Properties of hourlyStats
\* ---------------------------------------------------------------------

\* the UTC hour of day of a timestamp
UtcHour(ts) == (ts % 1440) \div 60

RECURSIVE SumSampleCounts(_)
SumSampleCounts(stats) ==
    IF stats = <<>> THEN 0 ELSE Head(stats).sampleCount + SumSampleCounts(Tail(stats))

\* stats is the hourly list of the samples rows
HourlyOf(rows, stats) ==
    /\ \A a, b \in 1..Len(stats) : a < b => stats[a].hour < stats[b].hour
    /\ \A a \in 1..Len(stats) :
           /\ stats[a].hour \in 0..23
           /\ stats[a].sampleCount > 0
           /\ stats[a].sampleCount =
                 Cardinality({k \in 1..Len(rows) : UtcHour(rows[k][4]) = stats[a].hour})
    /\ \A k \in 1..Len(rows) : \E a \in 1..Len(stats) : stats[a].hour = UtcHour(rows[k][4])
    /\ SumSampleCounts(stats) = Len(rows)

\* stats is built from horizon 5 when it has a sample, otherwise from the
\* smallest horizon that has samples, otherwise it is empty
HourlyFromReference(errors, stats) ==
    LET sampled == {h \in DOMAIN errors : errors[h] # <<>>}
    IN  IF sampled = {} THEN stats = <<>>
        ELSE IF 5 \in sampled THEN HourlyOf(errors[5], stats)
        ELSE HourlyOf(errors[CHOOSE h \in sampled : \A k \in sampled : h <= k], stats)

HourlyReturned == fn_pc = "returned" /\ fn_name = "_build_hourly_stats"

\* C22: hourlyStats is built from a single reference horizon: horizon 5 when
\* it has at least one sample, otherwise the smallest horizon that has
\* samples, otherwise the list is empty; it has one entry per UTC hour 0..23
\* that holds a sample of that horizon, in strictly ascending hour order, and
\* the entries' sampleCounts sum to the reference horizon's sampleCount.
C22_HourlyReference ==
    /\ Simulated30 =>
          /\ HourlyFromReference(horizon_errors[1], report[1].hourlyStats)
          /\ SumSampleCounts(report[1].hourlyStats) = CountIn(report[1].forecastStats, 5)
    /\ HourlyReturned => HourlyFromReference(fn_result.arg, fn_result.value)

\* a replay from Sunday 23:40 into Monday, whose hourly list has hour 0 before
\* hour 23
C22_Witness ==
    /\ Simulated30
    /\ Len(report[1].hourlyStats) = 2
    /\ report[1].hourlyStats[1].hour = 0
    /\ report[1].hourlyStats[2].hour = 23
    /\ report[1].hourlyStats[2].sampleCount > 1
    /\ CountIn(report[1].forecastStats, 60) > 0

\* a direct call with samples for horizons 15 and 60 only: the list is built
\* from horizon 15, two samples of hour 23 on different days in one entry
C22_WitnessFallback ==
    /\ HourlyReturned
    /\ DOMAIN fn_result.arg = {15, 60}
    /\ Len(fn_result.arg[60]) = 1
    /\ Len(fn_result.arg[15]) = 2
    /\ Len(fn_result.value) = 1
    /\ fn_result.value[1].hour = 23
    /\ fn_result.value[1].sampleCount = 2
    /\ UtcHour(fn_result.arg[60][1][4]) = 0

\* ---------------------------------------------------------------------
\* Properties of the absolute relative difference of a sample
\* ---------------------------------------------------------------------

\* the sample this iteration appended for the forecast fc
NewSample(fc) == SamplesAfter(fc.horizon)[Len(SamplesAfter(fc.horizon))]

\* the reading the forecast fc is scored against
ActualOf(fc) == sorted_glucose[1][FirstNearest(fc.ts)]

\* |error| / actual
RelativeDifference(fc) ==
    RDiv(RAbs(RSub(ActualOf(fc).valueMmol, fc.valueMmol)), ActualOf(fc).valueMmol)

\* C23 as stated: for every matched forecast the recorded absolute relative
\* difference is |error| / actual whenever the actual value is not 0, and 0
\* when the actual value is 0; a zero actual value never makes the
\* computation fail.
C23_ArdZeroOnlyAtZero ==
    [][LoopStep =>
          \A fc \in {predict(window_glucose'[1])[n] : n \in 1..2} :
              Within(fc.ts, fc.horizon) # {} =>
                      NewSample(fc)[3] =
                          IF ActualOf(fc).valueMmol # Rat(0)
                          THEN RelativeDifference(fc) ELSE Rat(0)]_vars

\* C23 amended: the recorded absolute relative difference is |error| / actual
\* whenever the actual value is greater than 0, and 0 when the actual value
\* is 0 or negative; a zero actual value never makes the computation fail.
C23_ArdZeroAtOrBelowZero ==
    [][LoopStep =>
          \A fc \in {predict(window_glucose'[1])[n] : n \in 1..2} :
              Within(fc.ts, fc.horizon) # {} =>
                      NewSample(fc)[3] =
                          IF RLess(Rat(0), ActualOf(fc).valueMmol)
                          THEN RelativeDifference(fc) ELSE Rat(0)]_vars

\* the samples of horizon 5 hold one scored against a reading of value 0, one
\* against a reading of value -1 and one against a positive reading
C23_Witness ==
    /\ pc[1] = "loop"
    /\ \E a, b, c \in 1..Len(SamplesBefore(5)) :
          /\ \E k \in 1..Len(sorted_glucose[1]) :
                /\ sorted_glucose[1][k].ts = SamplesBefore(5)[a][4]
                /\ sorted_glucose[1][k].valueMmol = Rat(0)
          /\ SamplesBefore(5)[a][3] = Rat(0)
          /\ SamplesBefore(5)[a][1] # Rat(0)
          /\ \E k \in 1..Len(sorted_glucose[1]) :
                /\ sorted_glucose[1][k].ts = SamplesBefore(5)[b][4]
                /\ sorted_glucose[1][k].valueMmol = Rat(-1)
          /\ SamplesBefore(5)[b][3] = Rat(0)
          /\ SamplesBefore(5)[b][1] # Rat(0)
          /\ SamplesBefore(5)[c][3] # Rat(0)

\* ---------------------------------------------------------------------
\* Properties of the replay with respect to the therapy events
\* ---------------------------------------------------------------------

SameButTherapy(a, b) ==
    /\ glucose[a] = glucose[b]
    /\ since[a] = since[b] /\ until[a] = until[b]
    /\ step_minutes[a] = step_minutes[b]

\* C24: the replay report does not depend on the therapy events: for fixed
\* glucose, since, until and stepMinutes, any two therapy-event lists yield
\* the same report.
C24_TherapyIgnored ==
    \A a, b \in Slots :
        (Returned(a) /\ Returned(b) /\ SameButTherapy(a, b)) => report[a] = report[b]

\* two finished replays of one series that triggers the rule, one without
\* therapy events and one whose last therapy window held two events
C24_Witness ==
    /\ Returned(1) /\ Returned(2)
    /\ SameButTherapy(1, 2)
    /\ therapy_events[1] = <<>>
    /\ Len(therapy_events[2]) = 3
    /\ window_therapy[1] = <<>>
    /\ Len(window_therapy[2]) = 2
    /\ report[1] = report[2]
    /\ report[1].forecastStats # <<>>
    /\ report[1].ruleStats[1].triggered > 0

\* ---------------------------------------------------------------------
\* Properties of the reading a forecast is scored against
\* ---------------------------------------------------------------------

\* the reading that is the simulated now of this iteration
NowOfStep == window_glucose'[1][Len(window_glucose'[1])]

\* this iteration appended a sample for horizon h
Scored(h) == Len(SamplesAfter(h)) = Len(SamplesBefore(h)) + 1

\* the timestamp of the reading that sample was scored against
ScoredAgainstTs(h) == SamplesAfter(h)[Len(SamplesAfter(h))][4]

\* some filtered reading is later than now by less than 10 minutes
ReadingSoonAfter(now_ts) ==
    \E k \in 1..Len(sorted_glucose[1]) :
        now_ts < sorted_glucose[1][k].ts /\ sorted_glucose[1][k].ts < now_ts + 10

\* C25 as stated: a forecast made at simulated now is only ever scored
\* against a reading whose timestamp is strictly later than now's: never
\* against the current reading itself or an earlier reading of the window.
C25_ScoredAgainstLater ==
    [][LoopStep =>
          \A h \in {5, 60} : Scored(h) => ScoredAgainstTs(h) > NowOfStep.ts]_vars

\* C25 amended: a forecast made at simulated now is never scored against a
\* reading with a timestamp earlier than now's; a 60-minute forecast is
\* scored only against a strictly later reading; a 5-minute forecast is always
\* scored, and it is scored against a reading with now's own timestamp (the
\* current reading, 5 minutes from the target) exactly when no reading
\* follows now within less than 10 minutes, as at the last simulated index
\* of a series and in a series sampled every 10 minutes.
C25_ScoredAgainstNowOrLater ==
    [][LoopStep =>
          /\ \A h \in {5, 60} : Scored(h) => ScoredAgainstTs(h) >= NowOfStep.ts
          /\ Scored(60) => ScoredAgainstTs(60) > NowOfStep.ts
          /\ Scored(5)
          /\ ScoredAgainstTs(5) = NowOfStep.ts <=> ~ReadingSoonAfter(NowOfStep.ts)]_vars

\* the loop has reached the last reading of a 5-minute series: its 5-minute
\* forecast was scored against that reading itself, the one before it
\* against its successor
C25_Witness ==
    /\ pc[1] = "loop"
    /\ i[1] >= Len(sorted_glucose[1])
    /\ Len(SamplesBefore(5)) >= 2
    /\ window_glucose[1][Len(window_glucose[1])] = sorted_glucose[1][Len(sorted_glucose[1])]
    /\ SamplesBefore(5)[Len(SamplesBefore(5))][4] = sorted_glucose[1][Len(sorted_glucose[1])].ts
    /\ SamplesBefore(5)[Len(SamplesBefore(5)) - 1][4] = sorted_glucose[1][Len(sorted_glucose[1])].ts
    /\ SamplesBefore(5)[Len(SamplesBefore(5))][1] # Rat(0)

\* ---------------------------------------------------------------------
\* Properties of the rolling glucose window
\* ---------------------------------------------------------------------

\* the 0-based index of the last step made
LastVisited == i[1] - ClaimedStride

\* C26: at every simulation step i the glucose window is the contiguous
\* slice of the sorted readings from index max(0, i - 72) to i, so it holds
\* between 25 and 73 readings and ends with the current reading; predict
\* returns exactly two forecasts on it and the rule evaluator does not answer
\* insufficient_points.
C26_RollingWindow ==
    (pc[1] \in {"loop", "done"} /\ sim_calls[1].rule > 0) =>
        /\ window_glucose[1] =
              SubSeq(sorted_glucose[1], Max(0, LastVisited - 72) + 1, LastVisited + 1)
        /\ Len(window_glucose[1]) >= 25
        /\ Len(window_glucose[1]) <= 73
        /\ window_glucose[1][Len(window_glucose[1])] = sorted_glucose[1][LastVisited + 1]
        /\ Len(predict(window_glucose[1])) = 2
        /\ evaluate_post_hypo_rebound(window_glucose[1]).reasons # <<"insufficient_points">>

\* a step at index 75: the window holds 73 readings and starts at index 3
C26_Witness ==
    /\ pc[1] = "loop"
    /\ LastVisited = 75
    /\ Len(window_glucose[1]) = 73
    /\ window_glucose[1][1] = sorted_glucose[1][4]
    /\ window_glucose[1][1] # sorted_glucose[1][1]
    /\ sim_calls[1].rule = 52

\* ---------------------------------------------------------------------
\* Termination of build_replay_report
\* ---------------------------------------------------------------------

\* an upper bound of the steps the call still has to take: it is 0 exactly
\* when the call has returned
StepsLeft ==
    IF pc[1] = "begin" THEN Len(glucose[1]) + 2
    ELSE IF pc[1] = "loop" THEN Max(0, Len(sorted_glucose[1]) - i[1]) + 1
    ELSE 0

\* the guard of Begin, of Step or of Finish holds
CanProceed ==
    \/ pc[1] = "begin"
    \/ pc[1] = "loop" /\ i[1] < Len(sorted_glucose[1])
    \/ pc[1] = "loop" /\ i[1] >= Len(sorted_glucose[1])

\* C27: build_replay_report ends with a report for every integer
\* stepMinutes, 0, negative values and values not divisible by 5 included:
\* the index stride is always >= 1, so the simulation index strictly
\* increases, and the loop ends after at most n - 24 steps.  Until the call
\* has returned a step can be taken, every step lowers StepsLeft, which is
\* never negative, and the call that has returned holds a report.
C27_Terminates ==
    /\ [](Stride(step_minutes[1]) >= 1)
    /\ [][sim_calls'[1] # sim_calls[1] => i'[1] > i[1]]_vars
    /\ [](sim_calls[1].rule <= Max(0, Len(sorted_glucose[1]) - 24))
    /\ [](pc[1] # "done" => CanProceed)
    /\ [](StepsLeft >= 0 /\ (StepsLeft = 0 <=> pc[1] = "done"))
    /\ [][StepsLeft' < StepsLeft]_vars
    /\ [](pc[1] = "done" => report[1] # None)

\* a finished replay of 33 readings with stepMinutes = -7: stride 1, nine steps
C27_Witness ==
    /\ pc[1] = "done"
    /\ step_minutes[1] = -7
    /\ Len(sorted_glucose[1]) = 33
    /\ sim_calls[1].rule = 33 - 24
    /\ report[1].forecastStats # <<>>

\* ---------------------------------------------------------------------
\* Concurrent sync pushes
\* ---------------------------------------------------------------------

AllPushesDone == \A w \in Workers : handler[w].pc = "done"

\* both requests carried a reading with the same (ts, source)
SameKeyPushed ==
    \E j \in 1..Len(handler["worker-1"].dedup_glucose),
       k \in 1..Len(handler["worker-2"].dedup_glucose) :
        /\ handler["worker-1"].dedup_glucose[j].ts = handler["worker-2"].dedup_glucose[k].ts
        /\ handler["worker-1"].dedup_glucose[j].source =
               handler["worker-2"].dedup_glucose[k].source

\* C28: when two sync pushes that carry a glucose reading with the same
\* (ts, source) run concurrently, each reading the existing rows, then
\* inserting or updating, then committing, storage ends with at most one
\* glucose row for that (ts, source).
C28_OneRowPerKey ==
    (AllPushesDone /\ SameKeyPushed) =>
        \A r, q \in db.glucose_points :
            (r.ts = q.ts /\ r.source = q.source) => r.id = q.id
====
